---- MODULE Spec2Model ----
(***************************************************************************)
(* Run queue, backend processes and autonomous scheduling of maya-code.    *)
(*                                                                         *)
(* Spec      : the orchestrator (backends/manager.ts): runClaude called by *)
(*             any caller, the per-context chain, the run pipeline and     *)
(*             killProcess.                                                *)
(* SchedSpec : the message handler, the heartbeat scheduler and the        *)
(*             callback scheduler submitting runs to the orchestrator.     *)
(* ProcSpec  : one BackendProcess.run() (ClaudeProcess / CodexProcess):    *)
(*             events fed to the accumulator, then the close handler.      *)
(***************************************************************************)
EXTENDS Integers, Sequences, FiniteSets, TLC

\* ---------------------------------------------------------------------
\* Bounds
\* ---------------------------------------------------------------------
MaxReqs == 2        \* runClaude calls explored in one behaviour of Spec
MaxSchedReqs == 2   \* runClaude calls explored in one behaviour of SchedSpec
MaxTicks == 2       \* heartbeat ticks in progress at the same time
MaxText == 2        \* tokens in the text of one stream event
MaxArmed == 2       \* armed heartbeat timeouts of one channel
MaxDelayLen == 4    \* characters of a delay string handed to parseDelay
MaxDigits == 2      \* digits in a row in a delay string
MaxTagLen == 3      \* tokens of a text handed to extractResponseTags on its own
MaxFileEvents == 3  \* events of a stream that reports file writes
MaxStream == 4      \* bytes written to stdout by one subprocess

\* ---------------------------------------------------------------------
\* Contexts
\* ---------------------------------------------------------------------
Channels == {"c1", "c2"}
HeartbeatChannels == {"c1"}

\* contexts that receive messages and commands: a channel and a thread of it
RunContexts == {<<"c1", "null">>, <<"c1", "t1">>}

Contexts == RunContexts \cup {<<"c2", "null">>}

getProcessKey(channelId, threadId) ==
    <<channelId, IF threadId = "null" THEN "main" ELSE threadId>>

Keys == {getProcessKey(c[1], c[2]) : c \in Contexts}

Backends == {"claude", "codex"}

\* model ids the /model override or the configured default can hold
Models == {"claude-opus-4-6", "gpt-5.3-codex"}

detectBackend(modelId) ==
    IF modelId = "gpt-5.3-codex" THEN "codex" ELSE "claude"

\* what a finished subprocess makes run() produce (see ProcSpec for the
\* close handler that decides between them)
ProcOutcomes == {"ok", "okcb", "ratelimit", "reject"}

ResolvedOutcomes == ProcOutcomes \ {"reject"}

\* outcomes of a heartbeat run, told apart by what the scheduler looks for:
\* "ratelimit" an error result with a rate-limit signature, "rejectrl" a
\* thrown error with one, "...hint" with a parseable "resets <time> (<zone>)",
\* "okcb" a result with a callback directive, "idle" a result whose clean
\* text is the idle sentinel [HEARTBEAT OK], left by a response that also
\* held a callback directive
HbOutcomes == {"ok", "okcb", "idle", "ratelimit", "reject", "ratelimithint", "rejectrl",
               "rejectrlhint"}

\* result.text.trim() === '[HEARTBEAT OK]'
noWork(o) == o = "idle"

\* run() rejects
Rejects(o) == o \in {"reject", "rejectrl", "rejectrlhint"}

\* isRateLimitError on the result text or on the message of the error
isRateLimitError(o) == o \in {"ratelimit", "ratelimithint", "rejectrl", "rejectrlhint"}

\* the text matches the pattern of parseResetTime
HasResetHint(o) == o \in {"ratelimithint", "rejectrlhint"}

VARIABLES
    reqs,             \* every runClaude call so far, in call order
    processQueues,    \* key -> index of the request whose swallowed promise is the chain tail (0: none)
    activeProcesses,  \* key -> index of the request whose process is registered (0: none)
    sessions,         \* persisted snapshot: key -> session
    nextUuid,         \* uuidv4 as a source of fresh identifiers
    dispatchLog,      \* key -> requests in the order runBackendImmediate started
    settleLog,        \* key -> requests in the order their promise settled
    inbox,            \* human messages received, run not yet submitted
    activeTimers,     \* channel -> heartbeat timer entry
    timeouts,         \* armed heartbeat setTimeout handles
    ticks,            \* heartbeat ticks in progress
    activeCallbacks,  \* channel -> armed one-shot callback timers
    firedCallbacks,   \* callback handlers that fired and have not yet submitted their run
    ready,            \* the ready handler has run restoreHeartbeats
    acc,              \* ProcSpec: the stream accumulator
    proc,             \* ProcSpec: the backend process and its run() promise
    tmpfs,            \* ProcSpec: the temporary system-prompt file of the Codex backend
    call              \* TagSpec: one call of a function of response-tags.ts

queueVars == <<reqs, processQueues, activeProcesses, sessions, nextUuid,
               dispatchLog, settleLog, inbox>>
hbVars == <<activeTimers, timeouts, ticks, activeCallbacks, firedCallbacks, ready>>
procVars == <<acc, proc, tmpfs, call>>
vars == <<queueVars, hbVars, procVars>>

\* ---------------------------------------------------------------------
\* Session store (storage/sessions.ts)
\* ---------------------------------------------------------------------
Interval == 2       \* the configured heartbeat interval, in abstract time units
IntervalOption == 5 \* an interval given with the interval option of /heartbeat

\* the intervals /heartbeat starts a heartbeat with
Intervals == {Interval, IntervalOption}

NoHeartbeat == [enabled |-> FALSE, intervalMs |-> 0, prompt |-> FALSE]

NoSession == [exists |-> FALSE, sessionId |-> 0, messageCount |-> 0,
              totalCostUsd |-> 0, heartbeat |-> NoHeartbeat]

\* the session of a key, created with a new session id when absent
getOrCreateSession(store, key, uuid) ==
    IF store[key].exists THEN store[key]
    ELSE [NoSession EXCEPT !.exists = TRUE, !.sessionId = uuid]

incrementMessageCount(session) ==
    [session EXCEPT !.messageCount = @ + 1]

addCost(session, costUsd) ==
    [session EXCEPT !.totalCostUsd = @ + costUsd]

\* ---------------------------------------------------------------------
\* Per-context promise chain (backends/manager.ts, runClaude)
\* ---------------------------------------------------------------------
NewRequest(key, src, cont, hb, pending) ==
    [key |-> key, src |-> src, continueSession |-> cont, isHeartbeat |-> hb,
     pred |-> pending, st |-> "queued", backend |-> "none",
     seenCount |-> 0, sessionId |-> 0, shouldContinue |-> FALSE,
     argv |-> [mode |-> "none", sid |-> 0],
     killed |-> FALSE, signalled |-> FALSE,
     procOut |-> "none", out |-> "pending", errOf |-> 0, handled |-> FALSE]

\* a chain that is not shielded from the failure of the run before
ChainTailNoSwallow(nextState) ==
    IF nextState = "pending" THEN "pending"
    ELSE IF nextState = "rejected" THEN "rejected" ELSE "fulfilled"

\* state of `next.catch(() => {})` given the state of `next`
ChainTail(nextState) ==
    IF nextState = "pending" THEN "pending" ELSE "fulfilled"

\* a request that does not wait for the chain of its key
TailStateNoWait(r) == "fulfilled"

\* state of the promise a request was chained on (`pending` in runClaude)
TailState(r) ==
    IF r = 0 THEN "fulfilled" ELSE ChainTail(reqs[r].out)

ReqIds == 1..Len(reqs)

\* runs whose runBackendImmediate has started and whose promise has not settled
InFlight(r) == reqs[r].st \in {"preparing", "registered", "spawned", "closed"}

Started(r) == reqs[r].st # "queued" /\ reqs[r].backend # "none"

Settled(r) == reqs[r].st = "settled"

\* runClaude that forgets to store the new tail of the chain
runClaudeNoSet(channelId, threadId, src, cont, hb) ==
    LET processKey == getProcessKey(channelId, threadId)
        pending == processQueues[processKey]
    IN /\ reqs' = Append(reqs, NewRequest(processKey, src, cont, hb, pending))
       /\ processQueues' = processQueues

\* runClaude with one chain shared by every context
runClaudeShared(channelId, threadId, src, cont, hb) ==
    LET processKey == getProcessKey(channelId, threadId)
    IN /\ reqs' = Append(reqs, NewRequest(processKey, src, cont, hb, Len(reqs)))
       /\ processQueues' = [processQueues EXCEPT ![processKey] = Len(reqs) + 1]

\* the body of runClaude: chain the request on the tail of its key
runClaude(channelId, threadId, src, cont, hb) ==
    LET processKey == getProcessKey(channelId, threadId)
        pending == processQueues[processKey]
    IN /\ reqs' = Append(reqs, NewRequest(processKey, src, cont, hb, pending))
       /\ processQueues' = [processQueues EXCEPT ![processKey] = Len(reqs) + 1]

\* ---------------------------------------------------------------------
\* Backend argument surfaces
\* ---------------------------------------------------------------------
ClaudeBuildArgs(continueSession, sessionId) ==
    IF continueSession THEN [mode |-> "resume", sid |-> sessionId]
    ELSE [mode |-> "new", sid |-> sessionId]

\* the Codex CLI is given a session id only when resuming
CodexBuildArgs(continueSession, sessionId) ==
    IF continueSession THEN [mode |-> "resume", sid |-> sessionId]
    ELSE [mode |-> "new", sid |-> 0]

buildArgs(backend, continueSession, sessionId) ==
    IF backend = "codex" THEN CodexBuildArgs(continueSession, sessionId)
    ELSE ClaudeBuildArgs(continueSession, sessionId)

\* an autonomous run that reuses the stored session id
ResolveSessionIdStored(isHeartbeat, session, uuid) == session.sessionId

\* runBackendImmediate: the session id handed to the process
ResolveSessionId(isHeartbeat, session, uuid) ==
    IF isHeartbeat THEN uuid ELSE session.sessionId

\* continuation decided without the heartbeat override
ShouldContinueAlways(isHeartbeat, continueSession, session) ==
    continueSession \/ session.messageCount > 0

\* runBackendImmediate: the continueSession option handed to the process
ShouldContinue(isHeartbeat, continueSession, session) ==
    IF isHeartbeat THEN FALSE ELSE (continueSession \/ session.messageCount > 0)

\* result.costUsd of a resolved run: Codex reports none; a Claude
\* rate-limit result is taken to carry none either
CostOf(backend, procOut) ==
    IF backend = "claude" /\ ~isRateLimitError(procOut) THEN 1 ELSE 0

\* ---------------------------------------------------------------------
\* Heartbeat timer table (heartbeat/scheduler.ts)
\* ---------------------------------------------------------------------
NoTimer == [on |-> FALSE, handle |-> 0, intervalMs |-> 0]

\* a handle no armed timeout and no table entry refers to
FreshHandle ==
    CHOOSE h \in 1..(Cardinality(timeouts) + Cardinality(Channels) + 1) :
        /\ \A t \in timeouts : t.handle # h
        /\ \A c \in Channels : ~(activeTimers[c].on /\ activeTimers[c].handle = h)

\* clearTimeout(existing.timer) followed by setTimeout and activeTimers.set
scheduleTick(channelId, intervalMs) ==
    LET existing == activeTimers[channelId]
        cleared == IF existing.on
                   THEN {t \in timeouts : t.handle # existing.handle}
                   ELSE timeouts
    IN /\ Cardinality({t \in cleared : t.channelId = channelId}) < MaxArmed
       /\ timeouts' = cleared \cup {[handle |-> FreshHandle, channelId |-> channelId,
                                      intervalMs |-> intervalMs]}
       /\ activeTimers' = [activeTimers EXCEPT ![channelId] =
                              [on |-> TRUE, handle |-> FreshHandle, intervalMs |-> intervalMs]]

\* resetHeartbeat that starts the countdown whether or not a timer exists
resetHeartbeatAlways(channelId) ==
    scheduleTick(channelId, IF activeTimers[channelId].on
                            THEN activeTimers[channelId].intervalMs ELSE Interval)

\* the countdown of an existing timer restarts; nothing without a timer
resetHeartbeat(channelId) ==
    IF activeTimers[channelId].on
    THEN scheduleTick(channelId, activeTimers[channelId].intervalMs)
    ELSE UNCHANGED <<activeTimers, timeouts>>

stop(channelId) ==
    LET existing == activeTimers[channelId]
    IN IF existing.on
       THEN /\ timeouts' = {t \in timeouts : t.handle # existing.handle}
            /\ activeTimers' = [activeTimers EXCEPT ![channelId] = NoTimer]
       ELSE UNCHANGED <<activeTimers, timeouts>>

\* ---------------------------------------------------------------------
\* Response directives (backends/response-tags.ts)
\* ---------------------------------------------------------------------
\* A text is a sequence of tokens:
\*   "w"     a word                      "sp"  white space
\*   "cb"    [CALLBACK: delay: prompt] whose delay parses
\*   "cbbad" [CALLBACK: delay: prompt] whose delay does not parse
\*   "up"    [UPLOAD: path]              "img" ![alt](local path)
\*   "alt"   *alt*, left where an image was
\*   "cbL"   the characters `[CALL`      "cbR" the characters `BACK: delay: prompt]`
\* (an image with an http(s) target is left in place, as a word is; "cbL"
\* directly followed by "cbR" reads [CALLBACK: delay: prompt])
Tokens == {"w", "sp", "cb", "cbbad", "up", "img"}

\* the two halves of a callback tag
Fragments == {"cbL", "cbR"}

SeqsUpTo(S, n) == UNION {[1..k -> S] : k \in 0..n}

\* texts of assistant messages and agent messages
Texts == SeqsUpTo(Tokens, MaxText)

\* texts carried by result and error events
ResultTexts == {<<>>, <<"w">>, <<"cb", "w">>}

RECURSIVE TrimLeft(_)
TrimLeft(s) == IF s # <<>> /\ Head(s) = "sp" THEN TrimLeft(Tail(s)) ELSE s

RECURSIVE TrimRight(_)
TrimRight(s) ==
    IF s # <<>> /\ s[Len(s)] = "sp" THEN TrimRight(SubSeq(s, 1, Len(s) - 1)) ELSE s

\* String.prototype.trim
Trim(s) == TrimRight(TrimLeft(s))

\* text.replace(/\[CALLBACK: ...\]/g, ...): every callback tag of the text is
\* cut out, and pushed when its delay parses
RECURSIVE CallbackPass(_)
CallbackPass(s) ==
    IF s = <<>> THEN [text |-> <<>>, found |-> <<>>]
    ELSE IF Len(s) >= 2 /\ s[1] = "cbL" /\ s[2] = "cbR"
    THEN LET r == CallbackPass(SubSeq(s, 3, Len(s)))
         IN [r EXCEPT !.found = <<"cb">> \o @]
    ELSE LET r == CallbackPass(Tail(s))
         IN IF Head(s) = "cb" THEN [r EXCEPT !.found = <<"cb">> \o @]
            ELSE IF Head(s) = "cbbad" THEN r
            ELSE [r EXCEPT !.text = <<Head(s)>> \o @]

\* .replace(/\[UPLOAD: ...\]/g, ...) on the text the callback pass returned
RECURSIVE UploadPass(_)
UploadPass(s) ==
    IF s = <<>> THEN [text |-> <<>>, found |-> <<>>]
    ELSE LET r == UploadPass(Tail(s))
         IN IF Head(s) = "up" THEN [r EXCEPT !.found = <<"up">> \o @]
            ELSE [r EXCEPT !.text = <<Head(s)>> \o @]

\* the two image replacements on the text the upload pass returned
RECURSIVE ImagePass(_)
ImagePass(s) ==
    IF s = <<>> THEN [text |-> <<>>, found |-> <<>>]
    ELSE LET r == ImagePass(Tail(s))
         IN IF Head(s) = "img"
            THEN [text |-> <<"alt">> \o r.text, found |-> <<"img">> \o r.found]
            ELSE [r EXCEPT !.text = <<Head(s)>> \o @]

\* the callback pass, the upload pass, then the image passes, each on the
\* text the pass before it returned; uploads are collected pass by pass,
\* not in text order
extractResponseTags(text) ==
    LET c == CallbackPass(text)
        u == UploadPass(c.text)
        i == ImagePass(u.text)
    IN [cleanText |-> Trim(i.text),
        uploadFiles |-> u.found \o i.found,
        callbacks |-> c.found]

\* ---------------------------------------------------------------------
\* parseDelay (backends/response-tags.ts, claude/process.ts)
\* ---------------------------------------------------------------------
\* A delay string is a sequence of characters; a returned number is the set
\* holding it and null is the empty set.
Digits == <<"0", "1", "2", "3", "4", "5", "6", "7", "8", "9">>

IsDigit(ch) == \E i \in 1..Len(Digits) : Digits[i] = ch

DigitValue(ch) == (CHOOSE i \in 1..Len(Digits) : Digits[i] = ch) - 1

\* parseInt of a run of digits
RECURSIVE parseInt(_)
parseInt(ds) ==
    IF ds = <<>> THEN 0
    ELSE parseInt(SubSeq(ds, 1, Len(ds) - 1)) * 10 + DigitValue(ds[Len(ds)])

\* String.prototype.toLowerCase, for the upper-case symbols of the model
toLowerCase(str) ==
    [i \in 1..Len(str) |->
        IF str[i] = "H" THEN "h" ELSE IF str[i] = ".PNG" THEN ".png" ELSE str[i]]

RECURSIVE TrimStart(_)
TrimStart(str) == IF str # <<>> /\ Head(str) = " " THEN TrimStart(Tail(str)) ELSE str

RECURSIVE TrimEnd(_)
TrimEnd(str) ==
    IF str # <<>> /\ str[Len(str)] = " " THEN TrimEnd(SubSeq(str, 1, Len(str) - 1)) ELSE str

\* the first position from i on whose character is not in S (Len + 1: none)
RECURSIVE SkipWhile(_, _, _)
SkipWhile(str, i, S) ==
    IF i <= Len(str) /\ str[i] \in S THEN SkipWhile(str, i + 1, S) ELSE i

DigitChars == {Digits[i] : i \in 1..Len(Digits)}

\* milliseconds of a unit, chosen by the first character of the unit
UnitMs(unit) ==
    IF unit = "h" THEN 60 * 60 * 1000
    ELSE IF unit = "m" THEN 60 * 1000
    ELSE 1000

\* the loop over regex.exec: from position i the next match of
\* /(\d+)\s*(h|...|m|...|s|...)/g is looked for; a match adds its value and
\* the search goes on behind the one unit character the alternation takes
RECURSIVE ExecLoop(_, _, _)
ExecLoop(str, i, r) ==
    IF i > Len(str) THEN r
    ELSE IF ~IsDigit(str[i]) THEN ExecLoop(str, i + 1, r)
    ELSE LET j == SkipWhile(str, i, DigitChars)
             k == SkipWhile(str, j, {" "})
         IN IF k <= Len(str) /\ str[k] \in {"h", "m", "s"}
            THEN ExecLoop(str, k + 1,
                          [totalMs |-> r.totalMs + parseInt(SubSeq(str, i, j - 1)) * UnitMs(str[k]),
                           matched |-> TRUE])
            ELSE ExecLoop(str, i + 1, r)

\* /^\d+$/.test(str)
AllDigits(str) == str # <<>> /\ \A i \in 1..Len(str) : IsDigit(str[i])

\* parseDelay that returns the total whenever something matched
parseDelayAnyTotal(delayStr) ==
    LET str == toLowerCase(TrimEnd(TrimStart(delayStr)))
        r == ExecLoop(str, 1, [totalMs |-> 0, matched |-> FALSE])
        f == IF ~r.matched /\ AllDigits(str)
             THEN [totalMs |-> parseInt(str) * 60 * 1000, matched |-> TRUE]
             ELSE r
    IN IF f.matched THEN {f.totalMs} ELSE {}

parseDelay(delayStr) ==
    LET str == toLowerCase(TrimEnd(TrimStart(delayStr)))
        r == ExecLoop(str, 1, [totalMs |-> 0, matched |-> FALSE])
        f == IF ~r.matched /\ AllDigits(str)
             THEN [totalMs |-> parseInt(str) * 60 * 1000, matched |-> TRUE]
             ELSE r
    IN IF f.matched /\ f.totalMs > 0 THEN {f.totalMs} ELSE {}

\* ---------------------------------------------------------------------
\* Stream accumulators (backends/claude/parser.ts, backends/codex/parser.ts)
\* ---------------------------------------------------------------------
NoError == [set |-> FALSE, msg |-> <<>>]
NoResult == [set |-> FALSE, is_error |-> FALSE]

\* a freshly constructed accumulator: text '', result null, error null
NewAccumulator ==
    [text |-> <<>>, result |-> NoResult, error |-> NoError, createdFiles |-> <<>>]

\* file paths, as sequences of name parts; <<>>: the empty string or no path
Paths == {<<"a", ".png">>, <<"a", ".PNG">>, <<".png", "a">>, <<"a", ".txt">>}

IMAGE_EXTENSIONS == {".png", ".jpg", ".jpeg", ".gif", ".webp", ".svg", ".bmp"}

endsWith(str, ext) == Len(str) > 0 /\ str[Len(str)] = ext

isImageFile(filePath) ==
    LET lower == toLowerCase(filePath)
    IN \E ext \in IMAGE_EXTENSIONS : endsWith(lower, ext)

includes(list, x) == \E i \in 1..Len(list) : list[i] = x

\* getImageFiles: createdFiles.filter(isImageFile)
getImageFiles(a) == SelectSeq(a.createdFiles, isImageFile)

\* assistant events of the Claude CLI with one tool_use block, and one with
\* a text block
ClaudeFileEvents ==
    {[type |-> "tool_use", name |-> "Write", file_path |-> f] : f \in Paths \cup {<<>>}}
    \cup {[type |-> "tool_use", name |-> "Edit", file_path |-> <<"a", ".PNG">>],
          [type |-> "tool_use", name |-> "Read", file_path |-> <<"a", ".txt">>],
          [type |-> "assistant", text |-> <<"w">>, has |-> FALSE, is_error |-> FALSE]}

\* items of the Codex CLI with a file_path, one of them with a text as well
CodexFileEvents ==
    {[type |-> "item.completed", text |-> <<>>, has |-> FALSE, is_error |-> FALSE,
      file_path |-> f] : f \in Paths \cup {<<>>}}
    \cup {[type |-> "item.completed", text |-> <<"w">>, has |-> FALSE, is_error |-> FALSE,
           file_path |-> <<"a", ".png">>]}

\* the end of the stream held no unterminated line
NoEvent == [type |-> "none", text |-> <<>>, has |-> FALSE, is_error |-> FALSE]

\* parsed lines of the Claude CLI; `has`: the event has a `result` field
ClaudeEvents ==
    {[type |-> "system", text |-> <<>>, has |-> FALSE, is_error |-> FALSE]}
    \cup {[type |-> "assistant", text |-> t, has |-> FALSE, is_error |-> FALSE] : t \in Texts}
    \cup {[type |-> "result", text |-> t, has |-> TRUE, is_error |-> e] :
              t \in ResultTexts, e \in BOOLEAN}
    \cup {[type |-> "result", text |-> <<>>, has |-> FALSE, is_error |-> e] : e \in BOOLEAN}

\* StreamAccumulator of claude/parser.ts: processToolUse pushes every path
ClaudeProcessEventPushAll(a, ev) ==
    IF ev.type = "tool_use"
    THEN IF ev.name \in {"Write", "Edit"} /\ ev.file_path # <<>>
         THEN [a EXCEPT !.createdFiles = Append(@, ev.file_path)]
         ELSE a
    ELSE IF ev.type = "assistant" THEN [a EXCEPT !.text = ev.text]
    ELSE IF ev.type = "result" /\ ev.has
    THEN [a EXCEPT !.result = [set |-> TRUE, is_error |-> ev.is_error],
                   !.text = IF ev.text # <<>> THEN ev.text ELSE @,
                   !.error = IF ev.is_error THEN [set |-> TRUE, msg |-> ev.text] ELSE @]
    ELSE a

\* StreamAccumulator.processEvent
ClaudeProcessEvent(a, ev) ==
    IF ev.type = "tool_use"
    THEN IF /\ ev.name \in {"Write", "Edit"}
            /\ ev.file_path # <<>> /\ ~includes(a.createdFiles, ev.file_path)
         THEN [a EXCEPT !.createdFiles = Append(@, ev.file_path)]
         ELSE a
    ELSE IF ev.type = "assistant" THEN [a EXCEPT !.text = ev.text]
    ELSE IF ev.type = "result" /\ ev.has
    THEN [a EXCEPT !.result = [set |-> TRUE, is_error |-> ev.is_error],
                   !.text = IF ev.text # <<>> THEN ev.text ELSE @,
                   !.error = IF ev.is_error THEN [set |-> TRUE, msg |-> ev.text] ELSE @]
    ELSE a

UnknownCodexError == <<"w", "w">>

\* parsed lines of the Codex CLI; `has`: the event has its `error` or
\* `message` field
CodexEvents ==
    {[type |-> "thread.started", text |-> <<>>, has |-> FALSE, is_error |-> FALSE]}
    \cup {[type |-> "item.completed", text |-> t, has |-> FALSE, is_error |-> FALSE] : t \in Texts}
    \cup {[type |-> y, text |-> t, has |-> TRUE, is_error |-> FALSE] :
              y \in {"turn.failed", "error"}, t \in ResultTexts}
    \cup {[type |-> y, text |-> <<>>, has |-> FALSE, is_error |-> FALSE] :
              y \in {"turn.failed", "error"}}

\* CodexStreamAccumulator.processEvent (agent_message items)
CodexProcessEvent(a, ev) ==
    IF ev.type = "item.completed"
    THEN LET file_path == IF "file_path" \in DOMAIN ev THEN ev.file_path ELSE <<>>
         IN [a EXCEPT !.text = IF ev.text # <<>> THEN ev.text ELSE @,
                      !.createdFiles =
                          IF file_path # <<>> /\ ~includes(@, file_path)
                          THEN Append(@, file_path) ELSE @]
    ELSE IF ev.type = "turn.failed"
    THEN [a EXCEPT !.error = IF ev.has /\ ev.text # <<>>
                             THEN [set |-> TRUE, msg |-> ev.text] ELSE @]
    ELSE IF ev.type = "error"
    THEN [a EXCEPT !.error = IF ev.has
                             THEN [set |-> TRUE,
                                   msg |-> IF ev.text # <<>> THEN ev.text
                                           ELSE UnknownCodexError]
                             ELSE @]
    ELSE a

EventsOf(backend) == IF backend = "codex" THEN CodexEvents ELSE ClaudeEvents

processEvent(backend, a, ev) ==
    IF ev = NoEvent THEN a
    ELSE IF backend = "codex" THEN CodexProcessEvent(a, ev)
    ELSE ClaudeProcessEvent(a, ev)

\* ---------------------------------------------------------------------
\* BackendProcess.run(): the close handler
\* (backends/claude/process.ts, backends/codex/process.ts)
\* ---------------------------------------------------------------------
\* exit codes handed to the close handler; -1: null (ended by a signal) or
\* a negative errno
ExitCodes == {0, 1, -1}

NoRunResult == [text |-> <<>>, isError |-> FALSE, uploadFiles |-> <<>>, callbacks |-> <<>>]

ErrorResult(msg) ==
    [text |-> msg, isError |-> TRUE, uploadFiles |-> <<>>, callbacks |-> <<>>]

\* `if (error)`: null and the empty string are falsy
Truthy(error) == error.set /\ error.msg # <<>>

\* a close handler that rejects on every nonzero exit code
ClaudeCloseHandlerRejectNonzero(a, code) ==
    IF Truthy(a.error) THEN [out |-> "resolved", result |-> ErrorResult(a.error.msg)]
    ELSE IF code # 0 THEN [out |-> "rejected", result |-> NoRunResult]
    ELSE LET tags == extractResponseTags(a.text)
         IN [out |-> "resolved",
             result |-> [text |-> tags.cleanText,
                         isError |-> a.result.set /\ a.result.is_error,
                         uploadFiles |-> tags.uploadFiles,
                         callbacks |-> tags.callbacks]]

\* ClaudeProcess.run, on 'close'
ClaudeCloseHandler(a, code) ==
    IF Truthy(a.error) THEN [out |-> "resolved", result |-> ErrorResult(a.error.msg)]
    ELSE IF code # 0 /\ a.text = <<>> THEN [out |-> "rejected", result |-> NoRunResult]
    ELSE LET tags == extractResponseTags(a.text)
         IN [out |-> "resolved",
             result |-> [text |-> tags.cleanText,
                         isError |-> a.result.set /\ a.result.is_error,
                         uploadFiles |-> tags.uploadFiles,
                         callbacks |-> tags.callbacks]]

\* CodexProcess.run, on 'close'
CodexCloseHandler(a, code) ==
    IF Truthy(a.error) THEN [out |-> "resolved", result |-> ErrorResult(a.error.msg)]
    ELSE IF code # 0 /\ a.text = <<>> THEN [out |-> "rejected", result |-> NoRunResult]
    ELSE LET tags == extractResponseTags(a.text)
         IN [out |-> "resolved",
             result |-> [text |-> tags.cleanText,
                         isError |-> FALSE,
                         uploadFiles |-> tags.uploadFiles,
                         callbacks |-> tags.callbacks]]

CloseHandler(backend, a, code) ==
    IF backend = "codex" THEN CodexCloseHandler(a, code) ELSE ClaudeCloseHandler(a, code)

\* tmpPromptFile: the field holds a path (not null); killed: kill() was called
IdleProc ==
    [st |-> "idle", backend |-> "none", spawned |-> FALSE, out |-> "pending",
     code |-> 0, result |-> NoRunResult, tmpPromptFile |-> FALSE, killed |-> FALSE]

\* the file at the path of tmpPromptFile: whether it exists, whether the
\* writeFile of buildArgs is still pending, and the unlink calls pending
NoTmpFile == [file |-> FALSE, writing |-> FALSE, unlinks |-> 0]

\* CodexProcess.cleanup: an unlink is started (not awaited) when the field
\* holds a path, and the field is cleared
cleanup(p) ==
    /\ tmpfs' = [tmpfs EXCEPT !.unlinks = IF p.tmpPromptFile THEN @ + 1 ELSE @]

\* CodexProcess.run calls buildArgs, which stores the path of the
\* temporary file and awaits writeFile
ProcBuildArgs ==
    /\ proc.st = "idle"
    /\ proc' = [IdleProc EXCEPT !.st = "building", !.backend = "codex",
                                !.tmpPromptFile = TRUE]
    /\ tmpfs' = [tmpfs EXCEPT !.writing = TRUE]
    /\ acc' = NewAccumulator
    /\ UNCHANGED <<call, queueVars, hbVars>>

\* the pending writeFile creates the file and completes
ProcWriteFile ==
    /\ tmpfs.writing
    /\ tmpfs' = [tmpfs EXCEPT !.writing = FALSE, !.file = TRUE]
    /\ UNCHANGED <<acc, proc, call, queueVars, hbVars>>

\* a pending unlink runs: the file is removed if it is there (a failure
\* is swallowed)
ProcUnlink ==
    /\ tmpfs.unlinks > 0
    /\ tmpfs' = [tmpfs EXCEPT !.unlinks = @ - 1, !.file = FALSE]
    /\ UNCHANGED <<acc, proc, call, queueVars, hbVars>>

\* run() spawns the CLI (Codex: once buildArgs has returned); when the CLI
\* cannot be started the 'error' handler cleans up and rejects the promise
ProcSpawn(backend, ok) ==
    /\ IF backend = "codex"
       THEN proc.st = "building" /\ ~tmpfs.writing
       ELSE proc.st = "idle"
    /\ proc' = [proc EXCEPT !.st = "running", !.backend = backend, !.spawned = ok,
                            !.out = IF ok THEN "pending" ELSE "rejected",
                            !.tmpPromptFile = IF ok THEN @ ELSE FALSE]
    /\ IF ok THEN UNCHANGED tmpfs ELSE cleanup(proc)
    /\ acc' = NewAccumulator
    /\ UNCHANGED <<call, queueVars, hbVars>>

\* kill() on the registered process: SIGTERM when the child exists, and
\* for Codex cleanup(), at any moment between registration and settling
ProcKill ==
    /\ proc.st \in {"building", "running"}
    /\ ~proc.killed
    /\ proc' = [proc EXCEPT !.killed = TRUE, !.tmpPromptFile = FALSE]
    /\ cleanup(proc)
    /\ UNCHANGED <<acc, call, queueVars, hbVars>>

\* a complete line arrives on stdout and its event is accumulated
ProcFeed(ev) ==
    /\ proc.st = "running" /\ proc.spawned
    /\ ev \in EventsOf(proc.backend)
    /\ acc' = processEvent(proc.backend, acc, ev)
    /\ UNCHANGED <<proc, tmpfs, call, queueVars, hbVars>>

\* 'close': the unterminated rest of the buffer is accumulated, Codex
\* cleans up, then the promise is settled unless the 'error' handler
\* already rejected it
ProcClose(code, ev) ==
    /\ proc.st = "running"
    /\ IF proc.spawned THEN ev \in EventsOf(proc.backend) \cup {NoEvent}
       ELSE ev = NoEvent /\ code # 0
    /\ LET a == processEvent(proc.backend, acc, ev)
           h == CloseHandler(proc.backend, a, code)
       IN /\ acc' = a
          /\ proc' = [proc EXCEPT !.st = "closed", !.code = code,
                                  !.out = IF proc.out = "pending" THEN h.out ELSE @,
                                  !.result = IF proc.out = "pending" THEN h.result ELSE @,
                                  !.tmpPromptFile = FALSE]
    /\ cleanup(proc)
    /\ UNCHANGED <<call, queueVars, hbVars>>

\* ---------------------------------------------------------------------
\* Initial state: after start-up and restoreHeartbeats, with the heartbeat
\* of the channels in HeartbeatChannels enabled
\* ---------------------------------------------------------------------
InitSessions ==
    [k \in Keys |->
        IF k[1] \in HeartbeatChannels /\ k[2] = "main"
        THEN [exists |-> TRUE, sessionId |-> 1, messageCount |-> 0, totalCostUsd |-> 0,
              heartbeat |-> [enabled |-> TRUE, intervalMs |-> Interval, prompt |-> TRUE]]
        ELSE NoSession]

\* no function of response-tags.ts has been called
NoCall == [fn |-> "none", st |-> "idle"]

InitProc ==
    /\ acc = NewAccumulator
    /\ proc = IdleProc
    /\ tmpfs = NoTmpFile
    /\ call = NoCall

\* the bot after start-up: queues, sessions and heartbeats
InitBot ==
    /\ reqs = <<>>
    /\ processQueues = [k \in Keys |-> 0]
    /\ activeProcesses = [k \in Keys |-> 0]
    /\ sessions = InitSessions
    /\ nextUuid = 2
    /\ dispatchLog = [k \in Keys |-> <<>>]
    /\ settleLog = [k \in Keys |-> <<>>]
    /\ inbox = [c \in Contexts |-> [cont \in BOOLEAN |-> 0]]
    /\ activeTimers = [c \in Channels |->
           IF c \in HeartbeatChannels
           THEN [on |-> TRUE, handle |-> 1, intervalMs |-> Interval] ELSE NoTimer]
    /\ timeouts = {[handle |-> 1, channelId |-> c, intervalMs |-> Interval] : c \in HeartbeatChannels}
    /\ ticks = {}
    /\ activeCallbacks = [c \in Channels |-> 0]
    /\ firedCallbacks = [c \in Channels |-> 0]
    /\ ready = TRUE

Init ==
    /\ InitBot
    /\ InitProc

\* runClaude calls made or already committed to by a handler in progress
Sum(f, S) ==
    LET RECURSIVE Acc(_)
        Acc(T) == IF T = {} THEN 0
                  ELSE LET x == CHOOSE y \in T : TRUE IN f[x] + Acc(T \ {x})
    IN Acc(S)

InboxCount == Sum([c \in Contexts |-> inbox[c][TRUE] + inbox[c][FALSE]], Contexts)

Committed ==
    Len(reqs) + InboxCount + Sum(firedCallbacks, Channels)
    + Cardinality({t \in ticks : t.pc \in {"start", "ready"}})

\* ---------------------------------------------------------------------
\* Human triggers (bot/events/messageCreate.ts, bot/commands/continue.ts)
\* ---------------------------------------------------------------------
\* a message arrives: the heartbeat countdown restarts (main channel only)
\* and the handler goes on to its awaits before calling runClaude
MessageCreate(ctx) ==
    /\ Committed < MaxSchedReqs
    /\ inbox' = [inbox EXCEPT ![ctx][FALSE] = @ + 1]
    /\ IF ctx[2] = "null" THEN resetHeartbeat(ctx[1])
       ELSE UNCHANGED <<activeTimers, timeouts>>
    /\ UNCHANGED <<reqs, processQueues, activeProcesses, sessions, nextUuid,
                   dispatchLog, settleLog, ticks, activeCallbacks, firedCallbacks, ready, procVars>>

\* /continue: refused without a session or while a process is registered
ContinueCommand(ctx) ==
    /\ Committed < MaxSchedReqs
    /\ sessions[getProcessKey(ctx[1], ctx[2])].exists
    /\ activeProcesses[getProcessKey(ctx[1], ctx[2])] = 0
    /\ inbox' = [inbox EXCEPT ![ctx][TRUE] = @ + 1]
    /\ UNCHANGED <<reqs, processQueues, activeProcesses, sessions, nextUuid,
                   dispatchLog, settleLog, hbVars, procVars>>

\* the handler reaches its runClaude call
HumanSubmit(ctx, cont) ==
    /\ inbox[ctx][cont] > 0
    /\ inbox' = [inbox EXCEPT ![ctx][cont] = @ - 1]
    /\ runClaude(ctx[1], ctx[2], IF cont THEN "continue" ELSE "human", cont, FALSE)
    /\ UNCHANGED <<activeProcesses, sessions, nextUuid,
                   dispatchLog, settleLog, hbVars, procVars>>

\* ---------------------------------------------------------------------
\* Orchestrator steps (backends/manager.ts)
\* ---------------------------------------------------------------------
\* runClaude called by any caller: a message or command handler (any
\* context), a heartbeat tick or a callback fire (isHeartbeat set, always
\* with threadId null).  The thread context is exercised with plain
\* messages; the continuation flag is exercised on the main context.
Submit(ctx, cont, hb) ==
    /\ Len(reqs) < MaxReqs
    /\ (hb \/ cont) => ctx[2] = "null"
    /\ runClaude(ctx[1], ctx[2],
                 IF hb THEN "autonomous" ELSE IF cont THEN "continue" ELSE "human", cont, hb)
    /\ UNCHANGED <<activeProcesses, sessions, nextUuid, dispatchLog, settleLog,
                   inbox, hbVars, procVars>>

queueFrame == <<processQueues, inbox, hbVars, procVars>>

\* the reaction `pending.then(() => runBackendImmediate(options))` runs once
\* the promise the request was chained on has settled: fulfilled starts
\* runBackendImmediate (session lookup, model, session id, continuation);
\* rejected skips the callback and rejects `next` with the same error
Dispatch(r, model) ==
    /\ r \in ReqIds
    /\ reqs[r].st = "queued"
    /\ TailState(reqs[r].pred) # "pending"
    /\ LET key == reqs[r].key
           hb == reqs[r].isHeartbeat
           created == ~sessions[key].exists
           session == getOrCreateSession(sessions, key, nextUuid)
           uuid == IF created THEN nextUuid + 1 ELSE nextUuid
       IN IF TailState(reqs[r].pred) = "fulfilled"
          THEN /\ sessions' = [sessions EXCEPT ![key] = session]
               /\ nextUuid' = nextUuid + (IF created THEN 1 ELSE 0) + (IF hb THEN 1 ELSE 0)
               /\ reqs' = [reqs EXCEPT ![r].st = "preparing",
                                       ![r].backend = detectBackend(model),
                                       ![r].seenCount = session.messageCount,
                                       ![r].sessionId = ResolveSessionId(hb, session, uuid),
                                       ![r].shouldContinue =
                                           ShouldContinue(hb, reqs[r].continueSession, session)]
               /\ dispatchLog' = [dispatchLog EXCEPT ![key] = Append(@, r)]
               /\ UNCHANGED settleLog
          ELSE /\ reqs' = [reqs EXCEPT ![r].st = "settled", ![r].out = "rejected",
                                       ![r].errOf = reqs[reqs[r].pred].errOf]
               /\ settleLog' = [settleLog EXCEPT ![key] = Append(@, r)]
               /\ UNCHANGED <<sessions, nextUuid, dispatchLog>>
    /\ UNCHANGED <<activeProcesses, queueFrame>>

\* the process object is constructed and registered, and run() is called:
\* ClaudeProcess spawns in the same turn, CodexProcess first awaits buildArgs
Register(r) ==
    /\ r \in ReqIds
    /\ reqs[r].st = "preparing"
    /\ activeProcesses' = [activeProcesses EXCEPT ![reqs[r].key] = r]
    /\ reqs' = IF reqs[r].backend = "claude"
               THEN [reqs EXCEPT ![r].st = "spawned",
                                 ![r].argv = buildArgs("claude", reqs[r].shouldContinue,
                                                       reqs[r].sessionId)]
               ELSE [reqs EXCEPT ![r].st = "registered"]
    /\ UNCHANGED <<sessions, nextUuid, dispatchLog, settleLog, queueFrame>>

\* CodexProcess.run after buildArgs: spawn, whether or not kill() was called
Spawn(r) ==
    /\ r \in ReqIds
    /\ reqs[r].st = "registered"
    /\ reqs' = [reqs EXCEPT ![r].st = "spawned",
                            ![r].argv = buildArgs("codex", reqs[r].shouldContinue,
                                                  reqs[r].sessionId)]
    /\ UNCHANGED <<activeProcesses, sessions, nextUuid, dispatchLog, settleLog, queueFrame>>

\* the subprocess ends ('close', or 'error' on a failed spawn): run() settles
Exit(r, o) ==
    /\ r \in ReqIds
    /\ reqs[r].st = "spawned"
    /\ reqs' = [reqs EXCEPT ![r].st = "closed", ![r].procOut = o]
    /\ UNCHANGED <<activeProcesses, sessions, nextUuid, dispatchLog, settleLog, queueFrame>>

\* runBackendImmediate after `await proc.run()`: count and cost of a resolved
\* run are stored, the finally block unregisters the key, `next` settles
Complete(r) ==
    /\ r \in ReqIds
    /\ reqs[r].st = "closed"
    /\ LET key == reqs[r].key
           o == reqs[r].procOut
           costUsd == CostOf(reqs[r].backend, o)
           counted == incrementMessageCount(sessions[key])
       IN /\ sessions' = IF Rejects(o) THEN sessions
                         ELSE [sessions EXCEPT ![key] =
                                  IF costUsd > 0 THEN addCost(counted, costUsd) ELSE counted]
          /\ activeProcesses' = [activeProcesses EXCEPT ![key] = 0]
          /\ reqs' = [reqs EXCEPT ![r].st = "settled",
                                  ![r].out = IF Rejects(o) THEN "rejected" ELSE "resolved",
                                  ![r].errOf = IF Rejects(o) THEN r ELSE 0]
          /\ settleLog' = [settleLog EXCEPT ![key] = Append(@, r)]
    /\ UNCHANGED <<nextUuid, dispatchLog, queueFrame>>

\* killProcess that also drops the chain of the key
KillProcessResetQueue(ctx) ==
    LET processKey == getProcessKey(ctx[1], ctx[2])
        p == activeProcesses[processKey]
    IN /\ p # 0
       /\ reqs' = [reqs EXCEPT ![p].killed = TRUE,
                               ![p].signalled = (reqs[p].st \in {"spawned", "closed"})]
       /\ activeProcesses' = [activeProcesses EXCEPT ![processKey] = 0]
       /\ processQueues' = [processQueues EXCEPT ![processKey] = 0]
       /\ UNCHANGED <<sessions, nextUuid, dispatchLog, settleLog, inbox, hbVars, procVars>>

\* killProcess: kill() on the registered process object (SIGTERM reaches the
\* child only if it has been spawned) and removal from the table
killProcessReturns(processKey) == activeProcesses[processKey] # 0

KillProcess(ctx) ==
    LET processKey == getProcessKey(ctx[1], ctx[2])
        p == activeProcesses[processKey]
    IN /\ IF killProcessReturns(processKey)
          THEN /\ reqs' = [reqs EXCEPT ![p].killed = TRUE,
                                       ![p].signalled = (reqs[p].st \in {"spawned", "closed"})]
               /\ activeProcesses' = [activeProcesses EXCEPT ![processKey] = 0]
          ELSE UNCHANGED <<reqs, activeProcesses>>
       /\ UNCHANGED <<processQueues, sessions, nextUuid, dispatchLog, settleLog,
                      inbox, hbVars, procVars>>

\* ---------------------------------------------------------------------
\* Callback scheduler and result handlers
\* ---------------------------------------------------------------------
\* result.callbacks of a settled request: one directive for "okcb" and "idle"
CallbacksOf(r) ==
    IF reqs[r].out = "resolved" /\ reqs[r].procOut \in {"okcb", "idle"} THEN 1 ELSE 0

\* scheduleCallbacks: one armed one-shot timer per callback, on the channel
scheduleCallbacks(channelId, n) ==
    activeCallbacks' = [activeCallbacks EXCEPT ![channelId] = @ + n]

hbFrame == <<processQueues, activeProcesses, sessions, nextUuid,
             dispatchLog, settleLog, inbox, ready, procVars>>

\* messageCreate / continue after `await runClaude`: reply, then register
\* the callbacks of the result under the parent channel id
HumanDone(r) ==
    /\ r \in ReqIds
    /\ reqs[r].src \in {"human", "continue"}
    /\ Settled(r) /\ ~reqs[r].handled
    /\ reqs' = [reqs EXCEPT ![r].handled = TRUE]
    /\ scheduleCallbacks(reqs[r].key[1], CallbacksOf(r))
    /\ UNCHANGED <<activeTimers, timeouts, ticks, firedCallbacks, hbFrame>>

\* a callback timer that fires and stays in the tracking list
CallbackFireKeep(c) ==
    /\ activeCallbacks[c] > 0
    /\ Committed < MaxSchedReqs
    /\ firedCallbacks' = [firedCallbacks EXCEPT ![c] = @ + 1]
    /\ UNCHANGED <<reqs, activeTimers, timeouts, ticks, activeCallbacks, hbFrame>>

\* a callback timer fires: it leaves the tracking list and its handler
\* starts (channel fetch, typing indicator)
CallbackFire(c) ==
    /\ activeCallbacks[c] > 0
    /\ Committed < MaxSchedReqs
    /\ activeCallbacks' = [activeCallbacks EXCEPT ![c] = @ - 1]
    /\ firedCallbacks' = [firedCallbacks EXCEPT ![c] = @ + 1]
    /\ UNCHANGED <<reqs, activeTimers, timeouts, ticks, hbFrame>>

\* the callback handler reaches runClaude, or returns because the channel
\* could not be fetched
CallbackSubmit(c, chanOk) ==
    /\ firedCallbacks[c] > 0
    /\ firedCallbacks' = [firedCallbacks EXCEPT ![c] = @ - 1]
    /\ IF chanOk THEN runClaude(c, "null", "callback", FALSE, TRUE)
       ELSE UNCHANGED <<reqs, processQueues>>
    /\ UNCHANGED <<activeProcesses, sessions, nextUuid, dispatchLog, settleLog,
                   inbox, activeTimers, timeouts, ticks, activeCallbacks, ready, procVars>>

\* the callback handler after `await runClaude`: the nested callbacks of
\* the result are scheduled when its text is not the idle sentinel and not
\* empty (hasText) and every send succeeds (sendOk); a rejection or a rate
\* limit is reported
CallbackDone(r, hasText, sendOk) ==
    /\ r \in ReqIds
    /\ reqs[r].src = "callback"
    /\ Settled(r) /\ ~reqs[r].handled
    /\ reqs' = [reqs EXCEPT ![r].handled = TRUE]
    /\ scheduleCallbacks(reqs[r].key[1],
                         IF ~noWork(reqs[r].procOut) /\ hasText /\ sendOk
                         THEN CallbacksOf(r) ELSE 0)
    /\ UNCHANGED <<activeTimers, timeouts, ticks, firedCallbacks, hbFrame>>

\* ---------------------------------------------------------------------
\* Heartbeat tick (heartbeat/scheduler.ts, tick)
\* ---------------------------------------------------------------------
FreshSlot == CHOOSE n \in 1..(Cardinality(ticks) + 1) : \A t \in ticks : t.slot # n

\* an armed heartbeat timeout fires and calls tick with its interval
TimerFire(t) ==
    /\ t \in timeouts
    /\ Cardinality(ticks) < MaxTicks
    /\ Committed < MaxSchedReqs
    /\ timeouts' = timeouts \ {t}
    /\ ticks' = ticks \cup {[slot |-> FreshSlot, channelId |-> t.channelId,
                              intervalMs |-> t.intervalMs, pc |-> "start", req |-> 0]}
    /\ UNCHANGED <<reqs, activeTimers, activeCallbacks, firedCallbacks, hbFrame>>

\* a tick that re-arms and returns when a process is registered for the channel
TickCheckSkipBusy(t, chanOk) ==
    /\ t \in ticks
    /\ t.pc = "start"
    /\ LET session == sessions[getProcessKey(t.channelId, "null")]
       IN IF ~(session.exists /\ session.heartbeat.enabled)
          THEN /\ activeTimers' = [activeTimers EXCEPT ![t.channelId] = NoTimer]
               /\ ticks' = ticks \ {t}
               /\ UNCHANGED timeouts
          ELSE IF activeProcesses[getProcessKey(t.channelId, "null")] # 0
                  \/ ~session.heartbeat.prompt \/ ~chanOk
          THEN /\ scheduleTick(t.channelId, t.intervalMs)
               /\ ticks' = ticks \ {t}
          ELSE /\ ticks' = (ticks \ {t}) \cup {[t EXCEPT !.pc = "ready"]}
               /\ UNCHANGED <<activeTimers, timeouts>>
    /\ UNCHANGED <<reqs, activeCallbacks, firedCallbacks, hbFrame>>

\* tick after `await getSession`: stop when the heartbeat is not enabled,
\* re-arm when there is no prompt or no channel, otherwise go on
TickCheck(t, chanOk) ==
    /\ t \in ticks
    /\ t.pc = "start"
    /\ LET session == sessions[getProcessKey(t.channelId, "null")]
       IN IF ~(session.exists /\ session.heartbeat.enabled)
          THEN /\ activeTimers' = [activeTimers EXCEPT ![t.channelId] = NoTimer]
               /\ ticks' = ticks \ {t}
               /\ UNCHANGED timeouts
          ELSE IF ~session.heartbeat.prompt \/ ~chanOk
          THEN /\ scheduleTick(t.channelId, t.intervalMs)
               /\ ticks' = ticks \ {t}
          ELSE /\ ticks' = (ticks \ {t}) \cup {[t EXCEPT !.pc = "ready"]}
               /\ UNCHANGED <<activeTimers, timeouts>>
    /\ UNCHANGED <<reqs, activeCallbacks, firedCallbacks, hbFrame>>

\* a tick whose outer catch returns without arming the next timer
TickPreRunFailsStops(t) ==
    /\ t \in ticks
    /\ t.pc = "ready"
    /\ ticks' = ticks \ {t}
    /\ UNCHANGED <<reqs, activeTimers, timeouts, activeCallbacks, firedCallbacks, hbFrame>>

\* the snapshot commit or the typing indicator throws before the run: the
\* outer catch logs it and the tick re-arms
TickPreRunFails(t) ==
    /\ t \in ticks
    /\ t.pc = "ready"
    /\ scheduleTick(t.channelId, t.intervalMs)
    /\ ticks' = ticks \ {t}
    /\ UNCHANGED <<reqs, activeCallbacks, firedCallbacks, hbFrame>>

\* the tick calls runClaude with isHeartbeat set, whatever is running
TickSubmit(t) ==
    /\ t \in ticks
    /\ t.pc = "ready"
    /\ runClaude(t.channelId, "null", "heartbeat", FALSE, TRUE)
    /\ ticks' = (ticks \ {t}) \cup {[t EXCEPT !.pc = "wait", !.req = Len(reqs) + 1]}
    /\ UNCHANGED <<activeProcesses, sessions, nextUuid, dispatchLog, settleLog,
                   inbox, activeTimers, timeouts, activeCallbacks, firedCallbacks,
                   ready, procVars>>

\* a day and the buffer of parseResetTime, in abstract time units
Day == 3
Buffer == 1

\* wall-clock times of day in the zone of the hint
Clock == 0..(Day - 1)

\* parseResetTime without the step to tomorrow
parseResetTimeNoWrap(reset, now) == (reset - now) + Buffer

\* parseResetTime on a parseable hint: the gap from now to the reset time
\* today, or tomorrow when the time is past, plus the buffer
parseResetTime(reset, now) ==
    LET delayMs == reset - now
    IN (IF delayMs < 0 THEN delayMs + Day ELSE delayMs) + Buffer

\* delay of the timer a finished tick arms: the parsed delay or twice the
\* interval of the tick on a rate limit, the interval of the tick otherwise
NextDelay(procOut, intervalMs, reset, now) ==
    IF isRateLimitError(procOut)
    THEN IF HasResetHint(procOut) /\ parseResetTime(reset, now) # 0
         THEN parseResetTime(reset, now)
         ELSE intervalMs * 2
    ELSE intervalMs

\* the tick after `await runClaude`: back off on a rate limit, otherwise
\* present the result, schedule its callbacks when its text is not the
\* idle sentinel and not empty (hasText) and every send succeeds (sendOk),
\* and re-arm
TickDone(t, hasText, sendOk) ==
    /\ t \in ticks
    /\ t.pc = "wait"
    /\ Settled(t.req)
    /\ reqs' = [reqs EXCEPT ![t.req].handled = TRUE]
    /\ scheduleCallbacks(t.channelId,
                         IF ~noWork(reqs[t.req].procOut) /\ hasText /\ sendOk
                         THEN CallbacksOf(t.req) ELSE 0)
    /\ \E reset \in Clock, now \in Clock :
          scheduleTick(t.channelId, NextDelay(reqs[t.req].procOut, t.intervalMs, reset, now))
    /\ ticks' = ticks \ {t}
    /\ UNCHANGED <<firedCallbacks, hbFrame>>

\* stop(channelId) followed by scheduleTick: the entry and its timeout are
\* removed, then a new timeout is armed and entered
startHeartbeat(channelId, intervalMs) ==
    LET existing == activeTimers[channelId]
        stopped == IF existing.on
                   THEN {t \in timeouts : t.handle # existing.handle}
                   ELSE timeouts
    IN /\ Cardinality({t \in stopped : t.channelId = channelId}) < MaxArmed
       /\ timeouts' = stopped \cup {[handle |-> FreshHandle, channelId |-> channelId,
                                      intervalMs |-> intervalMs]}
       /\ activeTimers' = [activeTimers EXCEPT ![channelId] =
                              [on |-> TRUE, handle |-> FreshHandle, intervalMs |-> intervalMs]]

\* /heartbeat <prompt> with the default interval or with the interval
\* option: the configuration is stored and the timer started
HeartbeatEnable(c, intervalMs) ==
    /\ LET key == getProcessKey(c, "null")
           session == getOrCreateSession(sessions, key, nextUuid)
       IN /\ sessions' = [sessions EXCEPT ![key] =
                  [session EXCEPT !.heartbeat =
                      [enabled |-> TRUE, intervalMs |-> intervalMs, prompt |-> TRUE]]]
          /\ nextUuid' = IF sessions[key].exists THEN nextUuid ELSE nextUuid + 1
    /\ startHeartbeat(c, intervalMs)
    /\ UNCHANGED <<reqs, processQueues, activeProcesses, dispatchLog,
                   settleLog, inbox, ticks, activeCallbacks, firedCallbacks, ready, procVars>>

\* /heartbeat test on an enabled heartbeat: fireNow calls tick with the
\* interval of the entry (0 without an entry) and leaves the timer armed
FireNow(c) ==
    /\ sessions[getProcessKey(c, "null")].heartbeat.enabled
    /\ Cardinality(ticks) < MaxTicks
    /\ Committed < MaxSchedReqs
    /\ ticks' = ticks \cup {[slot |-> FreshSlot, channelId |-> c,
                              intervalMs |-> IF activeTimers[c].on
                                             THEN activeTimers[c].intervalMs ELSE 0,
                              pc |-> "start", req |-> 0]}
    /\ UNCHANGED <<reqs, activeTimers, timeouts, activeCallbacks, firedCallbacks, hbFrame>>

\* restoreHeartbeats that starts a timer for every persisted channel session
restoreHeartbeatsAll ==
    LET restored == {c \in Channels : sessions[getProcessKey(c, "null")].exists}
        Handle(c) == IF c = "c1" THEN 1 ELSE 2
    IN /\ timeouts' = {[handle |-> Handle(c), channelId |-> c,
                         intervalMs |-> sessions[getProcessKey(c, "null")].heartbeat.intervalMs]
                           : c \in restored}
       /\ activeTimers' = [c \in Channels |->
              IF c \in restored
              THEN [on |-> TRUE, handle |-> Handle(c),
                    intervalMs |-> sessions[getProcessKey(c, "null")].heartbeat.intervalMs]
              ELSE activeTimers[c]]

\* restoreHeartbeats: startHeartbeat for every persisted session of a
\* channel (not of a thread) whose heartbeat is enabled with a positive
\* interval; no timer exists before it
restoreHeartbeats ==
    LET restored == {c \in Channels :
                        LET session == sessions[getProcessKey(c, "null")]
                        IN /\ session.exists /\ session.heartbeat.enabled
                           /\ session.heartbeat.intervalMs > 0}
        Handle(c) == IF c = "c1" THEN 1 ELSE 2
    IN /\ timeouts' = {[handle |-> Handle(c), channelId |-> c,
                         intervalMs |-> sessions[getProcessKey(c, "null")].heartbeat.intervalMs]
                           : c \in restored}
       /\ activeTimers' = [c \in Channels |->
              IF c \in restored
              THEN [on |-> TRUE, handle |-> Handle(c),
                    intervalMs |-> sessions[getProcessKey(c, "null")].heartbeat.intervalMs]
              ELSE activeTimers[c]]

\* the ready handler: heartbeats are restored from the persisted sessions
Restore ==
    /\ ~ready
    /\ restoreHeartbeats
    /\ ready' = TRUE
    /\ UNCHANGED <<reqs, processQueues, activeProcesses, sessions, nextUuid, dispatchLog,
                   settleLog, inbox, ticks, activeCallbacks, firedCallbacks, procVars>>

\* /heartbeat off: the configuration is cleared and the timer stopped
HeartbeatDisable(c) ==
    /\ sessions[getProcessKey(c, "null")].heartbeat.enabled
    /\ sessions' = [sessions EXCEPT ![getProcessKey(c, "null")].heartbeat = NoHeartbeat]
    /\ stop(c)
    /\ UNCHANGED <<reqs, processQueues, activeProcesses, nextUuid, dispatchLog,
                   settleLog, inbox, ticks, activeCallbacks, firedCallbacks, ready, procVars>>

\* ---------------------------------------------------------------------
\* Specification of the orchestrator and the schedulers
\* ---------------------------------------------------------------------
SchedModels == {"claude-opus-4-6"}

SchedNext ==
    \/ \E ctx \in RunContexts : MessageCreate(ctx)
    \/ \E ctx \in RunContexts : HumanSubmit(ctx, FALSE)
    \/ \E r \in ReqIds, model \in SchedModels : Dispatch(r, model)
    \/ \E r \in ReqIds : Register(r)
    \/ \E r \in ReqIds, o \in ProcOutcomes : Exit(r, o)
    \/ \E r \in ReqIds : Complete(r)
    \/ \E r \in ReqIds : HumanDone(r)
    \/ \E c \in Channels : CallbackFire(c)
    \/ \E c \in Channels, chanOk \in BOOLEAN : CallbackSubmit(c, chanOk)
    \/ \E r \in ReqIds, hasText \in BOOLEAN, sendOk \in BOOLEAN : CallbackDone(r, hasText, sendOk)
    \/ \E t \in timeouts : TimerFire(t)
    \/ \E t \in ticks, chanOk \in BOOLEAN : TickCheck(t, chanOk)
    \/ \E t \in ticks : TickPreRunFails(t)
    \/ \E t \in ticks : TickSubmit(t)
    \/ \E t \in ticks, hasText \in BOOLEAN, sendOk \in BOOLEAN : TickDone(t, hasText, sendOk)

SchedSpec == Init /\ [][SchedNext]_vars

\* ---------------------------------------------------------------------
\* Specification of the heartbeat scheduler from process start
\* ---------------------------------------------------------------------
\* a channel session whose heartbeat was configured with /heartbeat
EnabledSession(id) ==
    [exists |-> TRUE, sessionId |-> id, messageCount |-> 0, totalCostUsd |-> 0,
     heartbeat |-> [enabled |-> TRUE, intervalMs |-> Interval, prompt |-> TRUE]]

\* a channel session without a heartbeat configuration
PlainSession(id) == [EnabledSession(id) EXCEPT !.heartbeat = NoHeartbeat]

\* a channel session whose heartbeat is enabled with an empty prompt
PromptlessSession(id) == [EnabledSession(id) EXCEPT !.heartbeat.prompt = FALSE]

\* persisted snapshots the process can start from
Snapshots ==
    {ss \in [Keys -> {EnabledSession(1), EnabledSession(2), PlainSession(1),
                      PromptlessSession(1), NoSession}] :
        /\ ss[getProcessKey("c1", "t1")] = NoSession
        /\ ss[getProcessKey("c1", "null")] \in
              {EnabledSession(1), PlainSession(1), PromptlessSession(1)}
        /\ ss[getProcessKey("c2", "null")] \in {EnabledSession(2), NoSession}}

\* the state at process start: sessions as persisted, nothing in memory
HbInit ==
    /\ reqs = <<>>
    /\ processQueues = [k \in Keys |-> 0]
    /\ activeProcesses = [k \in Keys |-> 0]
    /\ sessions \in Snapshots
    /\ nextUuid = 3
    /\ dispatchLog = [k \in Keys |-> <<>>]
    /\ settleLog = [k \in Keys |-> <<>>]
    /\ inbox = [c \in Contexts |-> [cont \in BOOLEAN |-> 0]]
    /\ activeTimers = [c \in Channels |-> NoTimer]
    /\ timeouts = {}
    /\ ticks = {}
    /\ activeCallbacks = [c \in Channels |-> 0]
    /\ firedCallbacks = [c \in Channels |-> 0]
    /\ ready = FALSE
    /\ InitProc

\* contexts whose messages restart a heartbeat countdown
HbContexts == {<<"c1", "null">>}

\* Messages arrive once the ready handler has restored the heartbeats; the
\* countdown of the channels outside HeartbeatChannels does not run out in
\* the window explored; the message handler is followed up to its
\* resetHeartbeat (its run is explored in SchedSpec).
HbNext ==
    \/ Restore
    \/ \E ctx \in HbContexts : ready /\ MessageCreate(ctx)
    \/ \E r \in ReqIds, model \in SchedModels : Dispatch(r, model)
    \/ \E r \in ReqIds : Register(r)
    \/ \E r \in ReqIds, o \in HbOutcomes : Exit(r, o)
    \/ \E r \in ReqIds : Complete(r)
    \/ \E t \in timeouts : t.channelId \in HeartbeatChannels /\ TimerFire(t)
    \/ \E t \in ticks, chanOk \in BOOLEAN : TickCheck(t, chanOk)
    \/ \E t \in ticks : TickPreRunFails(t)
    \/ \E t \in ticks : TickSubmit(t)
    \/ \E t \in ticks, hasText \in BOOLEAN, sendOk \in BOOLEAN : TickDone(t, hasText, sendOk)

HbSpec == HbInit /\ [][HbNext]_vars

\* ---------------------------------------------------------------------
\* Specification of the heartbeat scheduler under the /heartbeat commands
\* ---------------------------------------------------------------------
\* outcomes of the runs of the ticks explored with the commands
CmdOutcomes == {"ok", "reject"}

\* The ticks of HbSpec interleaved with /heartbeat <prompt>, /heartbeat off
\* and /heartbeat test.
CmdNext ==
    \/ Restore
    \/ \E ctx \in HbContexts : ready /\ MessageCreate(ctx)
    \/ \E r \in ReqIds, model \in SchedModels : Dispatch(r, model)
    \/ \E r \in ReqIds : Register(r)
    \/ \E r \in ReqIds, o \in CmdOutcomes : Exit(r, o)
    \/ \E r \in ReqIds : Complete(r)
    \/ \E t \in timeouts : t.channelId \in HeartbeatChannels /\ TimerFire(t)
    \/ \E t \in ticks, chanOk \in BOOLEAN : TickCheck(t, chanOk)
    \/ \E t \in ticks : TickPreRunFails(t)
    \/ \E t \in ticks : TickSubmit(t)
    \/ \E t \in ticks, hasText \in BOOLEAN, sendOk \in BOOLEAN : TickDone(t, hasText, sendOk)
    \/ \E c \in HeartbeatChannels : ready /\ HeartbeatDisable(c)
    \/ \E c \in HeartbeatChannels, intervalMs \in Intervals : ready /\ HeartbeatEnable(c, intervalMs)
    \/ \E c \in HeartbeatChannels : ready /\ FireNow(c)

CmdSpec == HbInit /\ [][CmdNext]_vars

\* ---------------------------------------------------------------------
\* Specification of the orchestrator
\* ---------------------------------------------------------------------
QueueOutcomes == {"ok", "reject"}

Next ==
    \/ \E ctx \in RunContexts, cont \in BOOLEAN, hb \in BOOLEAN : Submit(ctx, cont, hb)
    \/ \E r \in ReqIds, model \in Models : Dispatch(r, model)
    \/ \E r \in ReqIds : Register(r)
    \/ \E r \in ReqIds : Spawn(r)
    \/ \E r \in ReqIds, o \in QueueOutcomes : Exit(r, o)
    \/ \E r \in ReqIds : Complete(r)
    \/ \E ctx \in Contexts : KillProcess(ctx)

Spec == Init /\ [][Next]_vars

\* ---------------------------------------------------------------------
\* Specification of one run of a backend process
\* ---------------------------------------------------------------------
ProcNext ==
    \/ ProcBuildArgs
    \/ ProcWriteFile
    \/ ProcUnlink
    \/ \E backend \in Backends, ok \in BOOLEAN : ProcSpawn(backend, ok)
    \/ \E ev \in EventsOf(proc.backend) : ProcFeed(ev)
    \/ \E code \in ExitCodes, ev \in EventsOf(proc.backend) \cup {NoEvent} :
           ProcClose(code, ev)

ProcSpec == Init /\ [][ProcNext]_vars

\* ---------------------------------------------------------------------
\* Specification of the functions of response-tags.ts, each called on its
\* own with an input drawn from a bounded set
\* ---------------------------------------------------------------------
DelayChars == {"0", "1", "2", "h", "H", "m", "s", "x", " "}

\* no more than MaxDigits digits in a row
ShortNumbers(str) ==
    \A i \in 1..Len(str) : \E j \in i..(i + MaxDigits) : IF j > Len(str) THEN TRUE ELSE ~IsDigit(str[j])

\* parseDelay is called with a delay string
ParseDelayInput ==
    \E n \in 0..MaxDelayLen : \E str \in {x \in [1..n -> DelayChars] : ShortNumbers(x)} :
        call = [fn |-> "parseDelay", st |-> "called", arg |-> str, rerun |-> FALSE]

\* extractResponseTags is called with a text
ExtractInput ==
    \E n \in 0..MaxTagLen : \E t \in [1..n -> Tokens \cup Fragments] :
        call = [fn |-> "extractResponseTags", st |-> "called", arg |-> t, rerun |-> FALSE]

TagInit ==
    /\ InitBot
    /\ acc = NewAccumulator
    /\ proc = IdleProc
    /\ tmpfs = NoTmpFile
    /\ (ParseDelayInput \/ ExtractInput)

\* parseDelay(delayStr) returns
ParseDelayCall ==
    /\ call.fn = "parseDelay" /\ call.st = "called"
    /\ call' = [fn |-> call.fn, st |-> "returned", arg |-> call.arg, rerun |-> call.rerun,
                out |-> parseDelay(call.arg)]
    /\ UNCHANGED <<acc, proc, tmpfs, queueVars, hbVars>>

\* extractResponseTags(text) returns
ExtractCall ==
    /\ call.fn = "extractResponseTags" /\ call.st = "called"
    /\ call' = [fn |-> call.fn, st |-> "returned", arg |-> call.arg, rerun |-> call.rerun,
                out |-> extractResponseTags(call.arg)]
    /\ UNCHANGED <<acc, proc, tmpfs, queueVars, hbVars>>

\* extractResponseTags is called on the clean text it returned
ExtractRerun ==
    /\ call.fn = "extractResponseTags" /\ call.st = "returned" /\ ~call.rerun
    /\ call' = [fn |-> call.fn, st |-> "called", arg |-> call.out.cleanText, rerun |-> TRUE]
    /\ UNCHANGED <<acc, proc, tmpfs, queueVars, hbVars>>

TagNext ==
    \/ ParseDelayCall
    \/ ExtractCall
    \/ ExtractRerun

TagSpec == TagInit /\ [][TagNext]_vars

\* ---------------------------------------------------------------------
\* Specification of the file lists of an accumulator
\* ---------------------------------------------------------------------
\* a new accumulator and the events its process will parse
FileInit ==
    /\ InitBot
    /\ acc = NewAccumulator
    /\ proc = IdleProc
    /\ tmpfs = NoTmpFile
    /\ \E backend \in Backends, n \in 0..MaxFileEvents :
          \E evs \in [1..n -> IF backend = "codex" THEN CodexFileEvents
                                ELSE ClaudeFileEvents] :
              call = [fn |-> "processEvent", backend |-> backend, events |-> evs, i |-> 0]

\* accumulator.processEvent(event) for the next event of the stream
FileFeed ==
    /\ call.fn = "processEvent" /\ call.i < Len(call.events)
    /\ acc' = processEvent(call.backend, acc, call.events[call.i + 1])
    /\ call' = [call EXCEPT !.i = @ + 1]
    /\ UNCHANGED <<proc, tmpfs, queueVars, hbVars>>

FileNext == FileFeed

FileSpec == FileInit /\ [][FileNext]_vars

\* ---------------------------------------------------------------------
\* Specification of the stdout handlers of BackendProcess.run()
\* (the handlers of ClaudeProcess and CodexProcess are the same)
\* ---------------------------------------------------------------------
\* bytes of the output: the braces of a JSON object, a blank, a line feed,
\* and the two bytes m1 m2 of one non-ASCII character inside a string
StdoutBytes == {"o", "c", "sp", "nl", "m1", "m2"}

\* the CLI writes well-formed UTF-8
Utf8(bytes) ==
    \A i \in 1..Len(bytes) :
        /\ bytes[i] = "m1" => (i < Len(bytes) /\ bytes[i + 1] = "m2")
        /\ bytes[i] = "m2" => (i > 1 /\ bytes[i - 1] = "m1")

\* Buffer.prototype.toString: a byte of a character cut off from the
\* rest of the character decodes to U+FFFD
RECURSIVE toString(_)
toString(chunk) ==
    IF chunk = <<>> THEN <<>>
    ELSE IF Head(chunk) = "m1" /\ Len(chunk) > 1 /\ chunk[2] = "m2"
    THEN <<"M">> \o toString(SubSeq(chunk, 3, Len(chunk)))
    ELSE IF Head(chunk) \in {"m1", "m2"} THEN <<"FFFD">> \o toString(Tail(chunk))
    ELSE <<Head(chunk)>> \o toString(Tail(chunk))

\* buffer.split('\n')
RECURSIVE split(_)
split(str) ==
    LET at == {i \in 1..Len(str) : str[i] = "nl"}
    IN IF at = {} THEN <<str>>
       ELSE LET i == CHOOSE j \in at : \A k \in at : j <= k
            IN <<SubSeq(str, 1, i - 1)>> \o split(SubSeq(str, i + 1, Len(str)))

\* JSON.parse accepts the text: an object whose string holds any characters
JSONparses(trimmed) ==
    /\ Len(trimmed) >= 2 /\ trimmed[1] = "o" /\ trimmed[Len(trimmed)] = "c"
    /\ \A i \in 2..(Len(trimmed) - 1) : trimmed[i] \in {"sp", "M", "FFFD"}

\* parseStreamLine, parseCodexLine: the event is given by the trimmed text;
\* <<>> is null
parseStreamLine(line) ==
    LET trimmed == Trim(line)
    IN IF trimmed = <<>> THEN <<>>
       ELSE IF JSONparses(trimmed) THEN trimmed ELSE <<>>

\* for (const line of lines): the events handed to accumulator.processEvent
RECURSIVE EventsOfLines(_)
EventsOfLines(lines) ==
    IF lines = <<>> THEN <<>>
    ELSE LET event == parseStreamLine(Head(lines))
         IN (IF event # <<>> THEN <<event>> ELSE <<>>) \o EventsOfLines(Tail(lines))

\* a spawned process and the bytes it will write to stdout
StdoutInit ==
    /\ InitBot
    /\ acc = NewAccumulator
    /\ proc = IdleProc
    /\ tmpfs = NoTmpFile
    /\ \E n \in 0..MaxStream : \E bytes \in {b \in [1..n -> StdoutBytes] : Utf8(b)} :
          call = [fn |-> "run", st |-> "running", stdout |-> bytes, read |-> 0,
                  buffer |-> <<>>, events |-> <<>>]

\* stdout 'data': a chunk of n bytes is appended to the buffer, the complete
\* lines are parsed, the rest is held back
StdoutData(n) ==
    /\ call.fn = "run" /\ call.st = "running"
    /\ n \in 1..(Len(call.stdout) - call.read)
    /\ LET chunk == SubSeq(call.stdout, call.read + 1, call.read + n)
           lines == split(call.buffer \o toString(chunk))
       IN call' = [call EXCEPT !.read = @ + n,
                               !.buffer = lines[Len(lines)],
                               !.events = @ \o EventsOfLines(SubSeq(lines, 1, Len(lines) - 1))]
    /\ UNCHANGED <<acc, proc, tmpfs, queueVars, hbVars>>

\* 'close', after the end of stdout: the rest of the buffer is parsed
StdoutClose ==
    /\ call.fn = "run" /\ call.st = "running"
    /\ call.read = Len(call.stdout)
    /\ call' = [call EXCEPT !.st = "closed",
                            !.events = @ \o (IF call.buffer # <<>>
                                             THEN EventsOfLines(<<call.buffer>>) ELSE <<>>)]
    /\ UNCHANGED <<acc, proc, tmpfs, queueVars, hbVars>>

StdoutNext ==
    \/ \E n \in 1..MaxStream : StdoutData(n)
    \/ StdoutClose

StdoutSpec == StdoutInit /\ [][StdoutNext]_vars

\* ---------------------------------------------------------------------
\* Specification of one run of a backend process that /stop may kill
\* ---------------------------------------------------------------------
\* the events of a backend that carry one of the result texts
KillEvents(backend) == {ev \in EventsOf(backend) : ev.text \in ResultTexts}

KillNext ==
    \/ ProcBuildArgs
    \/ ProcWriteFile
    \/ ProcUnlink
    \/ \E backend \in Backends, ok \in BOOLEAN : ProcSpawn(backend, ok)
    \/ \E ev \in KillEvents(proc.backend) : ProcFeed(ev)
    \/ \E code \in ExitCodes, ev \in KillEvents(proc.backend) \cup {NoEvent} :
           ProcClose(code, ev)
    \/ ProcKill

KillSpec == Init /\ [][KillNext]_vars

\* ---------------------------------------------------------------------
\* Properties of the orchestrator
\* ---------------------------------------------------------------------
IsPrefix(a, b) == Len(a) <= Len(b) /\ \A i \in 1..Len(a) : a[i] = b[i]

\* the requests of a key in the order runClaude was called
SubmittedTo(k) ==
    LET F[i \in 0..Len(reqs)] ==
            IF i = 0 THEN <<>>
            ELSE IF reqs[i].key = k THEN Append(F[i - 1], i) ELSE F[i - 1]
    IN F[Len(reqs)]

SameKey(i, j) == reqs[i].key = reqs[j].key

\* runBackendImmediate can start for r in this state
CanStart(r) ==
    ENABLED (Dispatch(r, "claude-opus-4-6") /\ reqs'[r].st = "preparing")

\* C1: for every key at most one run is in flight, and a request leaves
\* the queue only after every request submitted before it for the same
\* key has settled.
C1_OneRunInFlight ==
    \A i, j \in ReqIds :
        (i # j /\ SameKey(i, j)) =>
            /\ ~(InFlight(i) /\ InFlight(j))
            /\ (i < j /\ reqs[j].st # "queued") => Settled(i)

\* two callers of different kinds overlap on one key: one run in flight,
\* the other request waiting behind it
C1_Witness ==
    \E i, j \in ReqIds :
        /\ SameKey(i, j) /\ InFlight(i) /\ reqs[j].st = "queued"
        /\ reqs[i].isHeartbeat # reqs[j].isHeartbeat

\* C2: per key, runs are dispatched in submission order and their promises
\* settle in that same order, whether earlier runs resolve or reject.
C2_SubmissionOrder ==
    \A k \in Keys :
        /\ IsPrefix(dispatchLog[k], SubmittedTo(k))
        /\ IsPrefix(settleLog[k], dispatchLog[k])

\* two requests of one key have both settled, the first by rejecting
C2_Witness ==
    \E k \in Keys :
        /\ Len(settleLog[k]) >= 2
        /\ reqs[settleLog[k][1]].out = "rejected"

\* C3: a rejection reaches the promise of the rejected run only; a request
\* queued behind a rejected run can start, and every settled request was
\* dispatched and carries the outcome of its own run.
C3_FailureIsolated ==
    \A r \in ReqIds :
        /\ Settled(r) =>
              /\ Started(r)
              /\ reqs[r].out = (IF reqs[r].procOut = "reject" THEN "rejected" ELSE "resolved")
              /\ reqs[r].out = "rejected" => reqs[r].errOf = r
        /\ (reqs[r].st = "queued" /\ reqs[r].pred # 0 /\ reqs[reqs[r].pred].out = "rejected")
              => CanStart(r)

\* a request queued behind a run that rejected has resolved
C3_Witness ==
    \E i, j \in ReqIds :
        /\ i < j /\ SameKey(i, j)
        /\ reqs[i].out = "rejected" /\ reqs[j].out = "resolved"

\* C4: a queued request whose own key has nothing unsettled before it can
\* start while a run of another key is in flight.
C4_ContextsIndependent ==
    \A r \in ReqIds :
        ( /\ reqs[r].st = "queued"
          /\ \A i \in ReqIds : (i < r /\ SameKey(i, r)) => Settled(i)
          /\ \E a \in ReqIds : ~SameKey(a, r) /\ InFlight(a) )
        => CanStart(r)

\* runs of two different keys have their subprocesses alive at once
C4_Witness ==
    \E i, j \in ReqIds :
        ~SameKey(i, j) /\ reqs[i].st = "spawned" /\ reqs[j].st = "spawned"

\* the step is a killProcess that found p registered
KilledNow(p) == ~reqs[p].killed /\ reqs'[p].killed

Invoked(r) == reqs[r].argv.mode # "none"

\* C6: a non-autonomous request without continuation flag reaches the
\* subprocess in resume mode when the context had messages and in
\* new-session mode otherwise, in both cases with the stored session id.
C6_StoredSessionPassed ==
    \A r \in ReqIds :
        (Invoked(r) /\ ~reqs[r].isHeartbeat /\ ~reqs[r].continueSession) =>
            reqs[r].argv = [mode |-> IF reqs[r].seenCount > 0 THEN "resume" ELSE "new",
                            sid |-> sessions[reqs[r].key].sessionId]

\* C7: an autonomous request is never run in resume mode and gets a session
\* id that is not the stored id of any context nor the id of another
\* autonomous request.
C7_AutonomousFresh ==
    \A r \in ReqIds :
        (reqs[r].isHeartbeat /\ Started(r)) =>
            /\ ~reqs[r].shouldContinue
            /\ reqs[r].argv.mode # "resume"
            /\ \A k \in Keys : sessions[k].exists => sessions[k].sessionId # reqs[r].sessionId
            /\ \A q \in ReqIds :
                  (q # r /\ reqs[q].isHeartbeat /\ Started(q))
                      => reqs[q].sessionId # reqs[r].sessionId

\* two autonomous runs reached their subprocess, one of them submitted with
\* the continuation flag on a context that already had a message
C7_Witness ==
    \E r, q \in ReqIds :
        /\ r # q /\ reqs[r].isHeartbeat /\ reqs[q].isHeartbeat
        /\ Invoked(r) /\ Invoked(q)
        /\ reqs[r].continueSession /\ reqs[r].seenCount > 0

\* a run submitted by a message or a command is in flight on key k
HumanInFlight(k) ==
    \E h \in ReqIds : reqs[h].key = k /\ ~reqs[h].isHeartbeat /\ InFlight(h)

\* the request submitted last before r on the key of r (0: none)
PrevOnKey(r) ==
    LET before == {i \in ReqIds : i < r /\ SameKey(i, r)}
    IN IF before = {} THEN 0 ELSE CHOOSE i \in before : \A j \in before : j <= i

C9_ErrorResolves ==
    (proc.st = "closed" /\ proc.spawned /\ acc.error.set) =>
        /\ proc.out = "resolved"
        /\ proc.result.text = acc.error.msg
        /\ proc.result.isError

\* C10: once the process has closed with no terminal error recorded, run()
\* has rejected exactly when the exit code is nonzero and no text was
\* accumulated; otherwise it has resolved with the clean text, the upload
\* paths and the callbacks that extractResponseTags gives for the text.
C10_CloseWithoutError ==
    (proc.st = "closed" /\ ~acc.error.set) =>
        /\ proc.out = "rejected" <=> (proc.code # 0 /\ acc.text = <<>>)
        /\ proc.out = "resolved" =>
              /\ proc.result.text = extractResponseTags(acc.text).cleanText
              /\ proc.result.uploadFiles = extractResponseTags(acc.text).uploadFiles
              /\ proc.result.callbacks = extractResponseTags(acc.text).callbacks

\* a process that exited with a nonzero code and no error, after text with
\* an upload and a callback directive, has resolved with both
C10_Witness ==
    /\ proc.st = "closed" /\ ~acc.error.set /\ proc.code # 0
    /\ proc.out = "resolved"
    /\ proc.result.uploadFiles # <<>> /\ proc.result.callbacks # <<>>

\* no file operation of the run is pending
FsQuiet == ~tmpfs.writing /\ tmpfs.unlinks = 0

\* C11: once a Codex run has closed and its file operations have
\* completed, the temporary system-prompt file does not exist, whether or
\* not kill() was called and at whatever moment.
C11_TmpFileRemoved ==
    (proc.st = "closed" /\ proc.backend = "codex" /\ FsQuiet) => ~tmpfs.file

\* ---------------------------------------------------------------------
\* Heartbeat scheduler properties
\* ---------------------------------------------------------------------
\* isActive(channelId): the timer table has an entry for the channel
isActive(channelId) == activeTimers[channelId].on

\* the heartbeat configuration persisted for the main context of a channel
HeartbeatConfig(channelId) == sessions[getProcessKey(channelId, "null")].heartbeat

\* C12: once the heartbeats have been restored, a channel has a timer entry
\* exactly when its persisted heartbeat configuration is enabled.
C12_EntryIffEnabled ==
    ready => \A c \in HeartbeatChannels : isActive(c) <=> HeartbeatConfig(c).enabled

\* the tick t, waiting for its run, finishes in this step
TickCompleted(t) == t \in ticks /\ t.pc = "wait" /\ t \notin ticks'

\* outcome of the run of tick t
RunOutcome(t) == reqs[t.req].procOut

\* the step arms exactly one new timeout, for channel c with delay d, and
\* enters it in the timer table
ArmedFor(c, d) ==
    /\ activeTimers'[c].on /\ activeTimers'[c].intervalMs = d
    /\ \E x \in timeouts' :
          /\ timeouts' \ timeouts = {x}
          /\ x.channelId = c /\ x.intervalMs = d /\ x.handle = activeTimers'[c].handle

\* C13: a tick whose run ends with a rate-limit signature and no reset hint
\* (as an error result or as a thrown error) arms the next timer for
\* exactly twice the configured interval.
C13_BackoffTwiceConfigured ==
    [][\A t \in ticks :
          (TickCompleted(t) /\ isRateLimitError(RunOutcome(t)) /\ ~HasResetHint(RunOutcome(t)))
              => ArmedFor(t.channelId, 2 * HeartbeatConfig(t.channelId).intervalMs)]_vars

\* the gap from now to the next occurrence of the reset time of day
Gap(reset, now) == (reset - now) % Day

C15_ErrorRearmsConfigured ==
    [][\A t \in ticks :
          (TickCompleted(t) /\ Rejects(RunOutcome(t)) /\ ~isRateLimitError(RunOutcome(t)))
              => /\ ArmedFor(t.channelId, HeartbeatConfig(t.channelId).intervalMs)
                 /\ HeartbeatConfig(t.channelId)'.enabled]_vars

\* the tick t ends in this step: nothing goes on in its slot
TickEnded(t) == t \in ticks /\ \A u \in ticks' : u.slot # t.slot

\* exactly one timeout is armed for channel c, and it is the one of the
\* timer table
OneArmed(c) ==
    /\ isActive(c)
    /\ \E x \in timeouts :
          /\ x.handle = activeTimers[c].handle
          /\ {y \in timeouts : y.channelId = c} = {x}

\* C16: while the heartbeat of a channel stays enabled, every tick that
\* ends (no prompt, no channel, failure before the run, or a settled run
\* with any outcome) leaves exactly one armed timer for the channel, and
\* once the heartbeats are restored the channel always has either an armed
\* timer or a tick in progress, so the loop never stops.
C16_LoopNeverStops ==
    [][\A c \in HeartbeatChannels :
          (HeartbeatConfig(c).enabled /\ HeartbeatConfig(c)'.enabled) =>
              /\ \A t \in ticks : (t.channelId = c /\ TickEnded(t)) => OneArmed(c)'
              /\ ready' => (OneArmed(c)' \/ \E t \in ticks' : t.channelId = c)]_vars

\* ticks ended after a run that threw and after a rate-limited run (or, for
\* an empty prompt, without a run), and one timer is armed again
C16_Witness ==
    \E c \in HeartbeatChannels :
        /\ HeartbeatConfig(c).enabled /\ ticks = {} /\ OneArmed(c)
        /\ \E r \in ReqIds :
              /\ reqs[r].src = "heartbeat" /\ reqs[r].handled
              /\ reqs[r].procOut = "reject"
        /\ \E r \in ReqIds :
              /\ reqs[r].src = "heartbeat" /\ reqs[r].handled
              /\ isRateLimitError(reqs[r].procOut)

\* C17: the step that restores the heartbeats leaves, for every channel
\* whose persisted heartbeat configuration is enabled, exactly one armed
\* timer with the persisted interval, entered in the timer table, and no
\* entry and no timer for a channel whose configuration is disabled or
\* that has no session.
C17_RestoreArmsEnabled ==
    [][(~ready /\ ready') =>
          \A c \in Channels :
              IF HeartbeatConfig(c).enabled
              THEN /\ OneArmed(c)'
                   /\ activeTimers'[c].intervalMs = HeartbeatConfig(c).intervalMs
                   /\ \A x \in timeouts' :
                         x.channelId = c => x.intervalMs = HeartbeatConfig(c).intervalMs
              ELSE /\ ~isActive(c)'
                   /\ \A x \in timeouts' : x.channelId # c]_vars

\* the heartbeats have just been restored from a snapshot with an enabled
\* channel, a channel with a session and no heartbeat, and no thread session
C17_Witness ==
    /\ ready /\ reqs = <<>> /\ ticks = {}
    /\ HeartbeatConfig("c2").enabled /\ OneArmed("c2")
    /\ activeTimers["c2"].intervalMs = HeartbeatConfig("c2").intervalMs
    /\ sessions[getProcessKey("c1", "null")].exists /\ ~HeartbeatConfig("c1").enabled
    /\ ~isActive("c1") /\ \A x \in timeouts : x.channelId # "c1"

\* a message arrives in the main channel of c in this step
MainMessage(c) == inbox'[<<c, "null">>][FALSE] = inbox[<<c, "null">>][FALSE] + 1

\* timeouts armed for channel c
ArmedOf(c) == {x \in timeouts : x.channelId = c}

\* C18: resetHeartbeat, called for a message in the main channel, replaces
\* the timer of a channel that has a timer entry by one new timer with the
\* same interval, does nothing for a channel without an entry, and leaves
\* the timers of the other channels and the persisted sessions unchanged.
C18_ResetFrame ==
    [][\A c \in HeartbeatChannels :
          MainMessage(c) =>
              /\ IF isActive(c)
                 THEN /\ ArmedFor(c, activeTimers[c].intervalMs)
                      /\ \A x \in timeouts' : x.handle # activeTimers[c].handle
                      /\ \A x \in timeouts \ timeouts' : x.handle = activeTimers[c].handle
                 ELSE /\ activeTimers' = activeTimers
                      /\ timeouts' = timeouts
              /\ \A d \in Channels \ {c} :
                    /\ activeTimers'[d] = activeTimers[d]
                    /\ ArmedOf(d)' = ArmedOf(d)
              /\ sessions' = sessions]_vars

\* a message has arrived in the main channel before any tick: the restored
\* timer of the channel was replaced by a new one with the same interval,
\* and the timer of the other channel is the restored one
C18_Witness ==
    /\ inbox[<<"c1", "null">>][FALSE] > 0 /\ reqs = <<>> /\ ticks = {}
    /\ OneArmed("c1") /\ activeTimers["c1"].handle # 1
    /\ activeTimers["c1"].intervalMs = HeartbeatConfig("c1").intervalMs
    /\ OneArmed("c2") /\ activeTimers["c2"].handle = 2

\* C19: a message in the main channel of a channel with an enabled
\* heartbeat leaves no timer of the channel armed for less than the
\* configured interval, so none fires earlier than one configured
\* interval after the message.
C19_QuietForInterval ==
    [][\A c \in HeartbeatChannels :
          (MainMessage(c) /\ HeartbeatConfig(c).enabled) =>
              \A x \in ArmedOf(c)' : x.intervalMs >= HeartbeatConfig(c).intervalMs]_vars

\* ---------------------------------------------------------------------
\* Callback scheduler properties
\* ---------------------------------------------------------------------
\* the step appends a request submitted by the callback handler of channel c
CallbackRunSubmitted(c) ==
    /\ Len(reqs') = Len(reqs) + 1
    /\ reqs'[Len(reqs')].src = "callback"
    /\ reqs'[Len(reqs')].isHeartbeat
    /\ reqs'[Len(reqs')].key = getProcessKey(c, "null")

\* the step is the result handler of request r
Handles(r) == ~reqs[r].handled /\ reqs'[r].handled

\* callback directives of the results handled so far
DirectivesHandled == Cardinality({r \in ReqIds : reqs[r].handled /\ CallbacksOf(r) > 0})

\* runs submitted by callback handlers so far
CallbackRuns == Cardinality({r \in ReqIds : reqs[r].src = "callback"})

\* callbacks armed, or fired with a handler that has not reached its run
CallbacksPending ==
    Cardinality(UNION {{c} \X (1..(activeCallbacks[c] + firedCallbacks[c])) : c \in Channels})

C21_NestedCallbackArmed ==
    [][\A r \in ReqIds :
          (Handles(r) /\ reqs[r].src = "callback" /\ CallbacksOf(r) = 1)
              => /\ Settled(r)
                 /\ activeCallbacks'[reqs[r].key[1]] = activeCallbacks[reqs[r].key[1]] + 1]_vars

\* ---------------------------------------------------------------------
\* parseDelay and extractResponseTags (TagSpec)
\* ---------------------------------------------------------------------
RECURSIVE Pow10(_)
Pow10(n) == IF n = 0 THEN 1 ELSE 10 * Pow10(n - 1)

\* the positions of the unit characters that follow a number, white space
\* allowed in between
UnitPositions(str) ==
    {k \in 1..Len(str) :
        /\ str[k] \in {"h", "m", "s"}
        /\ \E j \in 1..(k - 1) : IsDigit(str[j]) /\ \A x \in (j + 1)..(k - 1) : str[x] = " "}

\* the number in front of the unit at position k
NumberBefore(str, k) ==
    LET j == CHOOSE y \in 1..(k - 1) : IsDigit(str[y]) /\ \A x \in (y + 1)..(k - 1) : str[x] = " "
        i == CHOOSE y \in 1..j :
                 /\ \A x \in y..j : IsDigit(str[x])
                 /\ (y = 1 \/ ~IsDigit(str[y - 1]))
    IN Sum([p \in i..j |-> DigitValue(str[p]) * Pow10(j - p)], i..j)

Factor(unit) == IF unit = "h" THEN 3600000 ELSE IF unit = "m" THEN 60000 ELSE 1000

\* what the specification gives for a delay string
SpecifiedDelay(delayStr) ==
    LET str == toLowerCase(TrimEnd(TrimStart(delayStr)))
        U == UnitPositions(str)
        total == IF U # {}
                 THEN Sum([k \in U |-> NumberBefore(str, k) * Factor(str[k])], U)
                 ELSE IF AllDigits(str)
                 THEN Sum([p \in 1..Len(str) |-> DigitValue(str[p]) * Pow10(Len(str) - p)],
                          1..Len(str)) * 60000
                 ELSE 0
    IN IF total = 0 THEN {} ELSE {total}

\* C22: parseDelay returns the sum of the number-unit tokens of its input
\* (hours, minutes, seconds in milliseconds), minutes for an input of digits
\* only, and null, never 0, when nothing is recognised or the total is 0.
C22_ParseDelay ==
    /\ (call.fn = "parseDelay" /\ call.st = "returned")
           => (call.out = SpecifiedDelay(call.arg) /\ call.out # {0})
    /\ parseDelay(<<"1", "h", "3", "0", "m">>) = {5400000}
    /\ parseDelay(<<"9", "0", "s">>) = {90000}
    /\ parseDelay(<<"4", "5">>) = {2700000}
    /\ parseDelay(<<"g", "a", "r", "b", "a", "g", "e">>) = {}
    /\ parseDelay(<<"0", "m">>) = {}

\* a string of two tokens has been parsed
C22_Witness ==
    /\ call.fn = "parseDelay" /\ call.st = "returned"
    /\ call.arg = <<"1", "h", "2", "m">>
    /\ call.out = {3720000}

\* C23: the clean text extractResponseTags returns holds no directive: a
\* second call on it returns the same text, no upload and no callback.
C23_RerunNoOp ==
    (call.fn = "extractResponseTags" /\ call.st = "returned" /\ call.rerun)
        => call.out = [cleanText |-> call.arg, uploadFiles |-> <<>>, callbacks |-> <<>>]

\* ---------------------------------------------------------------------
\* Heartbeat scheduler properties, continued
\* ---------------------------------------------------------------------
\* the tick t was started by a timer armed for a rate-limit backoff
AfterBackoff(t) == t.intervalMs # HeartbeatConfig(t.channelId).intervalMs

\* C24: the backoff is not carried over: a tick started by a backoff timer
\* re-arms for the configured interval when its run completes normally, and
\* for twice the configured interval when its run is again rate-limited
\* without a reset hint.
C24_BackoffNotCarried ==
    [][\A t \in ticks :
          (TickCompleted(t) /\ AfterBackoff(t)) =>
              /\ RunOutcome(t) = "ok"
                    => ArmedFor(t.channelId, HeartbeatConfig(t.channelId).intervalMs)
              /\ (isRateLimitError(RunOutcome(t)) /\ ~HasResetHint(RunOutcome(t)))
                    => ArmedFor(t.channelId, 2 * HeartbeatConfig(t.channelId).intervalMs)]_vars

\* ---------------------------------------------------------------------
\* Session continuity (Spec)
\* ---------------------------------------------------------------------
\* C25: a run that reaches its subprocess in resume mode with a session id
\* follows a run of the same context that reached its subprocess in
\* new-session mode with that id.
C25_ResumeFollowsNew ==
    \A r \in ReqIds :
        (Invoked(r) /\ reqs[r].argv.mode = "resume") =>
            \E q \in 1..(r - 1) :
                /\ reqs[q].key = reqs[r].key
                /\ Invoked(q)
                /\ reqs[q].argv = [mode |-> "new", sid |-> reqs[r].argv.sid]

\* ---------------------------------------------------------------------
\* Heartbeat timers under /heartbeat commands (CmdSpec)
\* ---------------------------------------------------------------------
\* C26: in every reachable state at most one heartbeat timer is armed for a
\* channel.
C26_AtMostOneArmed ==
    \A c \in Channels : Cardinality(ArmedOf(c)) <= 1

\* the tick t reads a configuration that is not enabled
SeesDisabled(t) == t.pc = "start" /\ ~HeartbeatConfig(t.channelId).enabled

TicksOf(c) == {t \in ticks : t.channelId = c}

\* C28: at most one heartbeat tick of a channel is in progress at any
\* instant.
C28_OneTickInProgress ==
    \A c \in Channels : Cardinality(TicksOf(c)) <= 1

\* C29: while the heartbeat configuration of a channel is disabled, no step
\* arms a heartbeat timer for the channel (the step that enables it again
\* is the first to arm one).
C29_NoTimerWhileDisabled ==
    [][\A c \in Channels :
          (~HeartbeatConfig(c).enabled /\ ~HeartbeatConfig(c)'.enabled)
              => ArmedOf(c)' \subseteq ArmedOf(c)]_vars

\* C30: while the heartbeat of a channel is enabled, every timer armed for
\* the channel outside a rate-limit backoff is armed for the interval of the
\* last startHeartbeat, which is the configured interval.
C30_ArmedForLastInterval ==
    [][\A c \in Channels :
          HeartbeatConfig(c)'.enabled =>
              \A x \in ArmedOf(c)' \ ArmedOf(c) :
                  x.intervalMs = HeartbeatConfig(c)'.intervalMs]_vars

\* ---------------------------------------------------------------------
\* Callbacks of a heartbeat result (HbSpec)
\* ---------------------------------------------------------------------
\* C31: a tick whose run resolves with a result that is neither the idle
\* sentinel nor a rate limit registers every callback directive of the
\* result (one timer each) and arms a timer for the configured interval.
C31_TickCallbacksRegistered ==
    [][\A t \in ticks :
          (TickCompleted(t) /\ reqs[t.req].out = "resolved"
             /\ ~noWork(RunOutcome(t)) /\ ~isRateLimitError(RunOutcome(t)))
              => /\ activeCallbacks'[t.channelId]
                       = activeCallbacks[t.channelId] + CallbacksOf(t.req)
                 /\ ArmedFor(t.channelId, HeartbeatConfig(t.channelId).intervalMs)]_vars

\* ---------------------------------------------------------------------
\* Completion of a run and the active table (Spec)
\* ---------------------------------------------------------------------
\* runBackendImmediate of request r returns or throws in this step
Completes(r) == reqs[r].st = "closed" /\ reqs'[r].st = "settled"

\* C32: a run that resolves adds 1 to the message count of its context and
\* its cost to the accumulated cost while its process is still in the
\* active table, a run that rejects leaves both unchanged, and in both
\* cases the table holds no entry for the context once the run has settled.
C32_CountedBeforeRemoval ==
    [][\A r \in ReqIds :
          Completes(r) =>
              LET key == reqs[r].key
              IN /\ IF Rejects(reqs[r].procOut)
                    THEN sessions'[key] = sessions[key]
                    ELSE /\ sessions'[key].messageCount = sessions[key].messageCount + 1
                         /\ sessions'[key].totalCostUsd
                               = sessions[key].totalCostUsd
                                 + CostOf(reqs[r].backend, reqs[r].procOut)
                         /\ activeProcesses[key] = r
                 /\ activeProcesses'[key] = 0]_vars

\* a non-autonomous run of the context of r, submitted before r, resolved
HumanRunBefore(r) ==
    \E q \in 1..(r - 1) :
        /\ reqs[q].key = reqs[r].key
        /\ ~reqs[q].isHeartbeat
        /\ reqs[q].out = "resolved"

\* C33: no step changes the stored session id of a context, and a
\* non-autonomous request without continuation flag reaches its subprocess
\* in resume mode exactly when an earlier non-autonomous run of its context
\* resolved, whatever autonomous runs the context had in between.
C33_AutonomousLeavesAddressing ==
    [][/\ \A k \in Keys :
             sessions[k].exists => sessions'[k].sessionId = sessions[k].sessionId
       /\ \A r \in ReqIds :
             (Invoked(r) /\ ~reqs[r].isHeartbeat /\ ~reqs[r].continueSession)
                 => (reqs[r].argv.mode = "resume" <=> HumanRunBefore(r))]_vars

\* isProcessRunning: the active table has an entry for the key
isProcessRunning(processKey) == activeProcesses[processKey] # 0

\* the dispatch of r has started and its subprocess has not exited
Running(r) == reqs[r].st \in {"preparing", "registered", "spawned"}

\* C34: isProcessRunning is true for a context exactly in the states in
\* which a run of the context is in flight (dispatch started, subprocess not
\* yet exited), a killed run that has not exited included.
C34_RunningIffInFlight ==
    \A k \in Keys :
        isProcessRunning(k) <=> \E r \in ReqIds : reqs[r].key = k /\ Running(r)

\* C35: when killProcess returns true, the run it found is terminated: a
\* subprocess already spawned receives the signal, and a subprocess not yet
\* spawned is never spawned afterwards.
C35_KillTerminates ==
    [][\A r \in ReqIds :
          /\ (KilledNow(r) /\ reqs[r].st = "spawned") => reqs'[r].signalled
          /\ (reqs[r].killed /\ reqs[r].st = "registered") => reqs'[r].st # "spawned"]_vars

\* C36: a callback runs in the context that scheduled it: the run submitted
\* by a callback handler has the context key (channel and thread) of a run
\* whose handled result carried a callback directive.
C36_CallbackKeepsContext ==
    [][(Len(reqs') > Len(reqs) /\ reqs'[Len(reqs')].src = "callback")
          => \E q \in ReqIds :
                /\ reqs[q].handled /\ CallbacksOf(q) = 1
                /\ reqs[q].key = reqs'[Len(reqs')].key]_vars

\* C37: a result that run() resolves with isError set carries no upload
\* and no callback directive, on both backends and for every event sequence.
C37_ErrorResultCarriesNoTags ==
    (proc.st = "closed" /\ proc.out = "resolved" /\ proc.result.isError)
        => proc.result.uploadFiles = <<>> /\ proc.result.callbacks = <<>>

\* C38: the latest text of the accumulator follows the protocol rule: after
\* an assistant event of the Claude protocol it is the text of that event,
\* replacing what was there; after an agent-message item of the Codex
\* protocol it is the previous text with the text of the item appended.
C38_LatestTextRule ==
    [][(proc.st = "running" /\ proc.spawned /\ acc' # acc)
          => \E ev \in EventsOf(proc.backend) :
                /\ acc' = processEvent(proc.backend, acc, ev)
                /\ ev.type = "assistant" => acc'.text = ev.text
                /\ ev.type = "item.completed" => acc'.text = acc.text \o ev.text]_vars

\* ---------------------------------------------------------------------
\* File lists of the accumulator (FileSpec)
\* ---------------------------------------------------------------------
\* the elements of s at the indices in I, in the order of s
SubSeqAt(s, I) ==
    [k \in 1..Cardinality(I) |->
        s[CHOOSE i \in I : Cardinality({j \in I : j < i}) = k - 1]]

\* the event reports a file written or edited
ReportsFile(ev) ==
    \/ ev.type = "tool_use" /\ ev.name \in {"Write", "Edit"} /\ ev.file_path # <<>>
    \/ ev.type = "item.completed" /\ ev.file_path # <<>>

\* the paths reported by the events processed so far, in their order
ObservedPaths ==
    LET done == SubSeq(call.events, 1, call.i)
        idx == {i \in 1..Len(done) : ReportsFile(done[i])}
        rep == SubSeqAt(done, idx)
    IN [k \in 1..Len(rep) |-> rep[k].file_path]

\* the last part of the path is an allow-listed extension in some casing
EndsInImageExtension(f) ==
    Len(f) > 0 /\ \E ext \in IMAGE_EXTENSIONS : toLowerCase(<<f[Len(f)]>>) = <<ext>>

\* C39: after any sequence of events the created-file list holds each
\* path reported by a write or edit event exactly once, in the order of
\* first observation, and the image-file list is the sub-list of the
\* paths that end in an allow-listed image extension in any casing.
C39_FileLists ==
    call.fn = "processEvent" =>
        LET obs == ObservedPaths
            cf == acc.createdFiles
        IN /\ cf = SubSeqAt(obs, {i \in 1..Len(obs) : \A j \in 1..(i - 1) : obs[j] # obs[i]})
           /\ getImageFiles(acc) = SubSeqAt(cf, {i \in 1..Len(cf) : EndsInImageExtension(cf[i])})

\* all events are processed, a path was reported twice, and the image list
\* holds a path with an upper-case extension and leaves a created path out
C39_Witness ==
    /\ call.fn = "processEvent" /\ call.i = Len(call.events)
    /\ Len(ObservedPaths) > Len(acc.createdFiles)
    /\ includes(getImageFiles(acc), <<"a", ".PNG">>)
    /\ Len(getImageFiles(acc)) < Len(acc.createdFiles)

\* ---------------------------------------------------------------------
\* Chunks of the subprocess output (StdoutSpec)
\* ---------------------------------------------------------------------
\* C40: the events handed to the accumulator do not depend on how the
\* output is cut into chunks: once the process has closed they are the
\* events of the lines of the whole output, each once and in order, with
\* the malformed lines left out.
C40_ChunkingIndependent ==
    (call.fn = "run" /\ call.st = "closed")
        => call.events = EventsOfLines(split(toString(call.stdout)))

====
